---- MODULE Spec2Model ----
(***************************************************************************)
(* Model of the crawl-extract-classify-score pipeline of src/main.py       *)
(* (scan_site and the helpers it calls).  Strings are TLA+ strings and are *)
(* taken apart with Len, SubSeq and \o, so the text-level helpers          *)
(* (is_valid_email, localpart, classify_email_relevance, ...) are computed *)
(* character by character, the way the Python code computes them.          *)
(***************************************************************************)
EXTENDS Integers, Sequences, FiniteSets, TLC

(***************************************************************************)
(* String primitives (Python str methods used by the code).                *)
(***************************************************************************)
\* s[i-1:i] and s[a-1:b] of Python: out-of-range slices are empty
Ch(s, i) == IF i < 1 \/ i > Len(s) THEN "" ELSE SubSeq(s, i, i)

Slice(s, a, b) ==
    IF a > Len(s) \/ b < a THEN ""
    ELSE SubSeq(s, IF a < 1 THEN 1 ELSE a, IF b > Len(s) THEN Len(s) ELSE b)

StartsWith(s, p) == Len(p) <= Len(s) /\ SubSeq(s, 1, Len(p)) = p

EndsWith(s, p) == Len(p) <= Len(s) /\ SubSeq(s, Len(s) - Len(p) + 1, Len(s)) = p

\* Python's "h in s"
Contains(s, h) == \E i \in 1..(Len(s) - Len(h) + 1) : SubSeq(s, i, i + Len(h) - 1) = h

\* position of the first occurrence of h in s, 0 when there is none (str.find + 1)
Find(s, h) ==
    IF Contains(s, h)
    THEN CHOOSE i \in 1..(Len(s) - Len(h) + 1) :
            /\ SubSeq(s, i, i + Len(h) - 1) = h
            /\ \A j \in 1..(i - 1) : SubSeq(s, j, j + Len(h) - 1) # h
    ELSE 0

UpperAlpha == "ABCDEFGHIJKLMNOPQRSTUVWXYZ"
LowerAlpha == "abcdefghijklmnopqrstuvwxyz"
Digits == "0123456789"

\* the characters of a string, as a set
CharsOf(s) == {SubSeq(s, i, i) : i \in 1..Len(s)}

UPPER == CharsOf(UpperAlpha)
LETTER == CharsOf(UpperAlpha) \cup CharsOf(LowerAlpha)
DIGIT == CharsOf(Digits)
HEXDIGIT == CharsOf("0123456789abcdefABCDEF")

\* str.lower() of one letter
LOWER_OF == [c \in UPPER |-> SubSeq(LowerAlpha, Find(UpperAlpha, c), Find(UpperAlpha, c))]

IsUpper(c) == c \in UPPER
IsLetter(c) == c \in LETTER
IsDigit(c) == c \in DIGIT
IsHexDigit(c) == c \in HEXDIGIT
IsSpace(c) == c \in {" ", "\t", "\n", "\r", "\f"}

LowerChar(c) == IF c \in UPPER THEN LOWER_OF[c] ELSE c

\* the concatenation of a sequence of strings (halving, to keep the evaluation shallow)
RECURSIVE ConcatAll(_)
ConcatAll(ss) ==
    IF ss = <<>> THEN ""
    ELSE IF Len(ss) = 1 THEN ss[1]
    ELSE LET h == Len(ss) \div 2
         IN  ConcatAll(SubSeq(ss, 1, h)) \o ConcatAll(SubSeq(ss, h + 1, Len(ss)))

\* str.lower()
Lower(s) == ConcatAll([k \in 1..Len(s) |-> LowerChar(Ch(s, k))])

RECURSIVE LStrip(_)
LStrip(s) == IF s # "" /\ IsSpace(Ch(s, 1)) THEN LStrip(SubSeq(s, 2, Len(s))) ELSE s

RECURSIVE RStrip(_)
RStrip(s) == IF s # "" /\ IsSpace(Ch(s, Len(s))) THEN RStrip(SubSeq(s, 1, Len(s) - 1)) ELSE s

Strip(s) == RStrip(LStrip(s))

\* least element of a non-empty set of integers
MinOf(S) == CHOOSE x \in S : \A y \in S : x <= y

\* first position at or after i of a character of the set cs, Len(s)+1 when none
FirstOf(s, i, cs) == MinOf({k \in i..Len(s) : Ch(s, k) \in cs} \cup {Len(s) + 1})

\* first position at or after i where h occurs in s, Len(s)+1 when none
FindFrom(s, i, h) ==
    MinOf({k \in i..(Len(s) - Len(h) + 1) : SubSeq(s, k, k + Len(h) - 1) = h} \cup {Len(s) + 1})

Min(a, b) == IF a <= b THEN a ELSE b
Max(a, b) == IF a >= b THEN a ELSE b

\* elements of a finite sequence
Range(f) == {f[i] : i \in 1..Len(f)}

(***************************************************************************)
(* EMAIL_RE = [A-Z0-9._%+-]+@[A-Z0-9.-]+\.[A-Z]{2,}  (re.IGNORECASE)        *)
(***************************************************************************)
LOCAL_CHAR == LETTER \cup DIGIT \cup {".", "_", "%", "+", "-"}
DOMAIN_CHAR == LETTER \cup DIGIT \cup {".", "-"}

IsLocalChar(c) == c \in LOCAL_CHAR
IsDomainChar(c) == c \in DOMAIN_CHAR

\* character classes of the regular expressions, by name
InClass(cls, c) ==
    CASE cls = "local"  -> IsLocalChar(c)
      [] cls = "domain" -> IsDomainChar(c)
      [] cls = "letter" -> IsLetter(c)
      [] cls = "space"  -> IsSpace(c)
      [] cls = "digit"  -> IsDigit(c)
      [] cls = "hex"    -> IsHexDigit(c)
      [] cls = "name"   -> c # "" /\ c \notin {"\t", "\n", "\f", " ", "<", "&", "#", ";"}
      [] OTHER -> FALSE

AllChars(s, cls) == \A i \in 1..Len(s) : InClass(cls, Ch(s, i))

\* EMAIL_RE.fullmatch(e): local part, one "@", domain labels, a dot, 2+ letters
EMAIL_RE_fullmatch(e) ==
    \E p \in 2..Len(e) :
        /\ Ch(e, p) = "@"
        /\ AllChars(SubSeq(e, 1, p - 1), "local")
        /\ \E q \in (p + 2)..(Len(e) - 2) :
              /\ Ch(e, q) = "."
              /\ AllChars(SubSeq(e, p + 1, q - 1), "domain")
              /\ AllChars(SubSeq(e, q + 1, Len(e)), "letter")

\* end of the maximal run of characters of class cls that starts at i (i-1 when empty)
RECURSIVE RunEnd(_, _, _)
RunEnd(s, i, cls) ==
    IF i <= Len(s) /\ InClass(cls, Ch(s, i)) THEN RunEnd(s, i + 1, cls) ELSE i - 1

\* start of the maximal run of characters of class cls that ends at i, not before lo
\* (i+1 when empty)
RECURSIVE RunStart(_, _, _, _)
RunStart(s, i, lo, cls) ==
    IF i >= lo /\ InClass(cls, Ch(s, i)) THEN RunStart(s, i - 1, lo, cls) ELSE i + 1

\* EMAIL_RE.match at position i: end position of the match, 0 when none.
\* The greedy local part must be followed by "@"; the greedy domain part
\* backtracks to the last dot that is followed by two letters.
EMAIL_RE_matchAt(s, i) ==
    LET j == RunEnd(s, i, "local")
        d == j + 2
        r == RunEnd(s, d, "domain")
        ks == {k \in d..(r - 3) : /\ Ch(s, k + 1) = "."
                                  /\ IsLetter(Ch(s, k + 2))
                                  /\ IsLetter(Ch(s, k + 3))}
    IN  IF j < i \/ j + 1 > Len(s) \/ Ch(s, j + 1) # "@" \/ ks = {}
        THEN 0
        ELSE LET k == CHOOSE x \in ks : \A y \in ks : y <= x
             IN  RunEnd(s, k + 2, "letter")

\* set(m.group(0) for m in EMAIL_RE.finditer(s)), scanning from position i.
\* A match holds an "@": the scan goes from one "@" to the next, and a match
\* begins at the start of the local-part run before the "@" (not before i).
RECURSIVE EMAIL_RE_findall(_, _)
EMAIL_RE_findall(s, i) ==
    LET p == FirstOf(s, i, {"@"})
        a == RunStart(s, p - 1, i, "local")
        m == EMAIL_RE_matchAt(s, a)
    IN  IF p > Len(s) THEN {}
        ELSE IF a <= p - 1 /\ m > 0 THEN {SubSeq(s, a, m)} \cup EMAIL_RE_findall(s, m + 1)
        ELSE EMAIL_RE_findall(s, p + 1)

(***************************************************************************)
(* URLs.  A URL is the string scheme://netloc/path?query.  urljoin is      *)
(* modelled for the references the model uses: absolute URLs, mailto:      *)
(* references and absolute paths ("/contact").                             *)
(***************************************************************************)
normalise_url(u0) ==
    LET u == Strip(u0)
    IN  IF u = "" THEN ""
        ELSE IF ~ (StartsWith(u, "http://") \/ StartsWith(u, "https://")) THEN "https://" \o u
        ELSE u


\* urlparse(url).scheme, .netloc and .path
UrlScheme(url) == LET p == Find(url, "://") IN IF p = 0 THEN "" ELSE Lower(SubSeq(url, 1, p - 1))

UrlNetloc(url) ==
    LET p == Find(url, "://")
    IN  IF p = 0 THEN "" ELSE Slice(url, p + 3, FirstOf(url, p + 3, {"/", "?", "#"}) - 1)

UrlPath(url) ==
    LET p == Find(url, "://")
        a == IF p = 0 THEN 1 ELSE FirstOf(url, p + 3, {"/", "?", "#"})
    IN  Slice(url, a, FirstOf(url, a, {"?", "#"}) - 1)

domain_of(url) == Lower(UrlNetloc(url))

same_domain(a, b) == domain_of(a) = domain_of(b)

build_base(url) == UrlScheme(url) \o "://" \o UrlNetloc(url)

urljoin(base_url, ref) ==
    IF Contains(ref, "://") \/ StartsWith(Lower(ref), "mailto:") THEN ref
    ELSE IF StartsWith(ref, "/")
    THEN (IF UrlScheme(base_url) = "" THEN ref ELSE build_base(base_url) \o ref)
    ELSE base_url

(***************************************************************************)
(* Vocabularies (module-level tables of src/main.py).                      *)
(***************************************************************************)
HIGH_VALUE_HINTS ==
    <<"partnership", "partner", "sponsor", "sponsorship",
      "businessdevelopment", "bizdev", "marketing", "communications",
      "comms", "brand", "outreach", "alliances", "strategic", "institutional",
      "investorrelations", "investor-relations", "ir", "corporate", "pr", "press">>

MEDIUM_VALUE_HINTS == <<"info", "hello", "contact", "enquiries", "inquiries", "connect">>

LOW_VALUE_HINTS ==
    <<"support", "help", "careers", "jobs", "hr", "webmaster", "privacy", "legal",
      "security", "abuse", "dpo">>

TRAP_LOCALPART_HINTS ==
    {"abuse", "security", "privacy", "legal", "webmaster", "postmaster",
     "mailer-daemon", "noreply", "no-reply", "donotreply"}

COMMON_FILE_EXTS ==
    <<".png", ".jpg", ".jpeg", ".webp", ".gif", ".svg", ".pdf", ".css", ".js", ".ico">>

SPONSOR_LANGUAGE ==
    <<"sponsor", "sponsorship", "partner", "partnership", "partners",
      "collaborate", "collaboration", "brand partnership", "media kit",
      "press kit", "advertise", "advertising", "work with us", "become a partner",
      "events partner", "strategic partnership">>

ORG_TYPES == <<"Asset Manager", "Bank", "Fintech", "Consulting", "Media / Research", "Education">>

ORG_TYPE_KEYWORDS ==
    [o \in Range(ORG_TYPES) |->
        CASE o = "Asset Manager" ->
               <<"asset management", "investment management", "portfolio", "aum",
                 "fund", "funds", "hedge fund", "private equity", "credit", "fixed income",
                 "wealth management", "institutional clients", "asset manager">>
          [] o = "Bank" ->
               <<"bank", "banking", "commercial bank", "investment bank", "retail bank",
                 "capital markets", "treasury", "lending", "deposit">>
          [] o = "Fintech" ->
               <<"fintech", "payments", "api", "digital bank", "neobank", "crypto",
                 "blockchain", "trading platform", "brokerage", "risk platform", "saas">>
          [] o = "Consulting" ->
               <<"consulting", "advisory", "strategy", "transformation",
                 "professional services", "management consulting">>
          [] o = "Media / Research" ->
               <<"research", "insights", "analysis", "newsletter", "publication",
                 "press", "media", "journalism">>
          [] OTHER ->
               <<"university", "college", "school", "institute", "students",
                 "academic", "alumni">>]

\* TLD_GEO in insertion order (the order geo_hint_from_domain iterates it)
TLD_GEO ==
    << <<".uk", "UK">>, <<".ie", "Ireland">>, <<".de", "Germany">>, <<".fr", "France">>,
       <<".nl", "Netherlands">>, <<".it", "Italy">>, <<".es", "Spain">>, <<".se", "Sweden">>,
       <<".no", "Norway">>, <<".dk", "Denmark">>, <<".ch", "Switzerland">>,
       <<".be", "Belgium">>, <<".at", "Austria">>, <<".pl", "Poland">>,
       <<".pt", "Portugal">>, <<".fi", "Finland">>, <<".eu", "Europe">>,
       <<".com", "Global / Unknown">>, <<".org", "Global / Unknown">> >>

\* number of entries of a keyword list that occur in text t: sum(1 for w in ws if w in t)
CountIn(ws, t) == Cardinality({i \in 1..Len(ws) : Contains(t, ws[i])})

AnyIn(ws, t) == \E i \in 1..Len(ws) : Contains(t, ws[i])

(***************************************************************************)
(* Validator / classifier.                                                 *)
(***************************************************************************)
\* a validator without the file-extension test
is_valid_email_any_suffix(email) ==
    LET e == Strip(email)
    IN  /\ e # ""
        /\ ~ (Contains(e, "/") \/ Contains(e, "\\"))
        /\ EMAIL_RE_fullmatch(e)

\* lines 456-464
is_valid_email(email) ==
    LET e == Strip(email)
    IN  /\ e # ""
        /\ ~ \E i \in 1..Len(COMMON_FILE_EXTS) : EndsWith(Lower(e), COMMON_FILE_EXTS[i])
        /\ ~ (Contains(e, "/") \/ Contains(e, "\\"))
        /\ EMAIL_RE_fullmatch(e)

\* email.split("@", 1)[0].lower()
localpart(email) ==
    LET p == Find(email, "@")
    IN  Lower(IF p = 0 THEN email ELSE SubSeq(email, 1, p - 1))

classify_email_relevance(email) ==
    LET lp == localpart(email)
    IN  IF AnyIn(HIGH_VALUE_HINTS, lp) THEN "High"
        ELSE IF AnyIn(LOW_VALUE_HINTS, lp) THEN "Low"
        ELSE IF AnyIn(MEDIUM_VALUE_HINTS, lp) THEN "Medium"
        ELSE "Medium"

is_trap_email(email) ==
    LET lp == localpart(email)
    IN  \/ lp \in TRAP_LOCALPART_HINTS
        \/ \E h \in TRAP_LOCALPART_HINTS : Contains(lp, h)

CTX_STRONG ==
    <<"partnership", "partners", "sponsor", "sponsorship", "brand", "marketing",
      "media kit", "press", "advertis", "investor relations", "institutional">>

CTX_MEDIUM ==
    <<"contact", "enquiry", "inquiry", "collaborat", "work with us",
      "business development", "biz dev">>

context_score(context) ==
    LET c == Lower(context)
    IN  Min(40, 8 * CountIn(CTX_STRONG, c) + 4 * CountIn(CTX_MEDIUM, c))

FREE_MAIL ==
    {"gmail.com", "yahoo.com", "hotmail.com", "outlook.com", "live.com",
     "icloud.com", "proton.me", "protonmail.com"}

domain_match_bonus(email, domain) ==
    LET p == Find(email, "@")
        ed == Lower(SubSeq(email, p + 1, Len(email)))
        dm == Lower(domain)
    IN  IF p = 0 THEN 0
        ELSE IF ed \in FREE_MAIL THEN -10
        ELSE IF dm # "" /\ (ed = dm \/ EndsWith(ed, "." \o dm) \/ EndsWith(dm, "." \o ed)) THEN 10
        ELSE 0

(***************************************************************************)
(* Org profiler.                                                           *)
(***************************************************************************)
guess_page_type(url) ==
    LET p == Lower(UrlPath(url))
    IN  IF AnyIn(<<"partner", "partnership", "sponsor", "sponsorship", "advertis",
                   "media-kit", "press-kit">>, p) THEN "Partnerships"
        ELSE IF Contains(p, "investor") \/ Contains(p, "/ir") THEN "Investor Relations"
        ELSE IF Contains(p, "contact") THEN "Contact"
        ELSE IF Contains(p, "about") THEN "About"
        ELSE IF Contains(p, "team") \/ Contains(p, "people") THEN "Team"
        ELSE IF Contains(p, "careers") \/ Contains(p, "jobs") THEN "Careers"
        ELSE IF AnyIn(<<"privacy", "terms", "legal", "imprint", "impressum">>, p) THEN "Legal"
        ELSE IF p \in {"", "/"} THEN "Homepage"
        ELSE "Other"

\* best = (org, hits) after scanning the categories in table order up to index n
RECURSIVE OrgBest(_, _)
OrgBest(t, n) ==
    IF n = 0 THEN <<"Corporate / Other", 0>>
    ELSE LET prev == OrgBest(t, n - 1)
             hits == CountIn(ORG_TYPE_KEYWORDS[ORG_TYPES[n]], t)
         IN  IF hits > prev[2] THEN <<ORG_TYPES[n], hits>> ELSE prev

\* the org type of infer_org_type (the confidence is hundredths: 25 = 0.25)
infer_org_type(text) ==
    LET best == OrgBest(Lower(text), Len(ORG_TYPES))
    IN  IF best[1] = "Corporate / Other" THEN <<best[1], 25>>
        ELSE <<best[1], Min(95, 35 + 12 * best[2])>>

infer_size_proxy(sig, text) ==
    LET t == Lower(text)
        has_global == AnyIn(<<"global", "worldwide", "offices", "our offices", "international">>, t)
        has_aum == Contains(t, "aum") \/ Contains(t, "assets under management")
        has_clients == Contains(t, "clients") \/ Contains(t, "institutional")
        score == (IF sig.has_careers_page THEN 2 ELSE 0)
               + (IF sig.has_team_page THEN 1 ELSE 0)
               + (IF has_global THEN 2 ELSE 0)
               + (IF has_aum THEN 2 ELSE 0)
               + (IF has_clients THEN 1 ELSE 0)
    IN  IF score >= 6 THEN <<"Large / Institutional", 80>>
        ELSE IF score >= 3 THEN <<"Mid-sized", 65>>
        ELSE <<"Small", 55>>

sponsor_language_score(text) == CountIn(SPONSOR_LANGUAGE, Lower(text))

RECURSIVE GeoScan(_, _)
GeoScan(d, i) ==
    IF i > Len(TLD_GEO) THEN "Global / Unknown"
    ELSE IF EndsWith(d, TLD_GEO[i][1]) THEN TLD_GEO[i][2]
    ELSE GeoScan(d, i + 1)

geo_hint_from_domain(d) == GeoScan(Lower(d), 1)

(***************************************************************************)
(* Contact scorer.                                                         *)
(***************************************************************************)
EUROPE_GEO ==
    {"Europe", "Ireland", "Germany", "France", "Netherlands", "Switzerland", "Belgium",
     "Austria", "Denmark", "Norway", "Sweden", "Finland", "Italy", "Spain", "Portugal",
     "Poland"}

\* the additive score of sponsor_fit_score before the final clamp
RawFitScore(email_relevance, org_type, size_proxy, geo_hint, sponsor_lang_hits, ctx_score, dom_bonus) ==
      (CASE email_relevance = "High" -> 35
         [] email_relevance = "Medium" -> 20
         [] email_relevance = "Low" -> 5
         [] OTHER -> 15)
    + (IF org_type \in {"Asset Manager", "Bank", "Fintech", "Consulting"} THEN 25
       ELSE IF org_type \in {"Media / Research", "Education"} THEN 12
       ELSE 8)
    + (CASE size_proxy = "Large / Institutional" -> 20
         [] size_proxy = "Mid-sized" -> 12
         [] size_proxy = "Small" -> 6
         [] OTHER -> 8)
    + Min(15, sponsor_lang_hits * 3)
    + Min(20, ctx_score)
    + dom_bonus
    + (IF geo_hint = "UK" THEN 8
       ELSE IF geo_hint \in EUROPE_GEO THEN 5
       ELSE 2)

\* a scorer that returns the sum without clamping it
sponsor_fit_score_unclamped(email_relevance, org_type, size_proxy, geo_hint, sponsor_lang_hits, ctx_score, dom_bonus) ==
    RawFitScore(email_relevance, org_type, size_proxy, geo_hint, sponsor_lang_hits, ctx_score, dom_bonus)

sponsor_fit_score(email_relevance, org_type, size_proxy, geo_hint, sponsor_lang_hits, ctx_score, dom_bonus) ==
    Max(0, Min(100, RawFitScore(email_relevance, org_type, size_proxy, geo_hint,
                                sponsor_lang_hits, ctx_score, dom_bonus)))

(***************************************************************************)
(* Deobfuscator.  The model's alphabet is printable ASCII; the three       *)
(* zero-width characters U+200B, U+200C, U+200D are written as the         *)
(* characters ZWSP, ZWNJ, ZWJ below, which stand for nothing else.         *)
(***************************************************************************)
ZWSP == "~"
ZWNJ == "^"
ZWJ == "|"

\* chr(32)..chr(126); NumRef never reads the places of the stand-ins and of chr(96)
Printable ==
    " !\"#$%&'()*+,-./0123456789:;<=>?@ABCDEFGHIJKLMNOPQRSTUVWXYZ[\\]^_?abcdefghijklmnopqrstuvwxyz{|}~"

\* a character outside the model's alphabet
OtherChar == "?"

RECURSIVE ParseInt(_, _)
ParseInt(s, radix) ==
    IF s = "" THEN 0
    ELSE ParseInt(SubSeq(s, 1, Len(s) - 1), radix) * radix
         + (Find("0123456789abcdef", LowerChar(Ch(s, Len(s)))) - 1)

\* the character of a numeric reference &#num; (html._replace_charref)
NumRef(num) ==
    IF num = 8203 THEN ZWSP
    ELSE IF num = 8204 THEN ZWNJ
    ELSE IF num = 8205 THEN ZWJ
    ELSE IF num \in {9, 10, 12} THEN Ch("\t\n\f", IF num = 12 THEN 3 ELSE num - 8)
    ELSE IF num = 13 THEN "\r"
    ELSE IF num \in {94, 96, 124, 126} THEN OtherChar
    ELSE IF num >= 32 /\ num <= 126 THEN Ch(Printable, num - 31)
    ELSE IF num \in (1..8) \cup (14..31) \cup (127..159) \cup {11} THEN ""
    ELSE OtherChar

\* the entries of html.entities.html5 that the model's texts use
HTML5 ==
    << <<"amp;", "&">>, <<"amp", "&">>, <<"lt;", "<">>, <<"lt", "<">>,
       <<"gt;", ">">>, <<"gt", ">">>, <<"quot;", "\"">>, <<"quot", "\"">>,
       <<"commat;", "@">>, <<"period;", ".">>, <<"lsqb;", "[">>, <<"rsqb;", "]">>,
       <<"lpar;", "(">>, <<"rpar;", ")">> >>

InHTML5(n) == \E i \in 1..Len(HTML5) : HTML5[i][1] = n
HTML5Of(n) == HTML5[CHOOSE i \in 1..Len(HTML5) : HTML5[i][1] = n][2]

\* the replacement of a named reference "&" + n: the whole name, else its
\* longest proper prefix of two or more characters that is an entity
NamedRef(n) ==
    IF InHTML5(n) THEN HTML5Of(n)
    ELSE LET xs == {x \in 2..(Len(n) - 1) : InHTML5(SubSeq(n, 1, x))}
         IN  IF xs = {} THEN "&" \o n
             ELSE LET x == CHOOSE y \in xs : \A z \in xs : z <= y
                  IN  HTML5Of(SubSeq(n, 1, x)) \o Slice(n, x + 1, Len(n))

\* the text of a character reference that starts with the "&" at position i
\* and the position after it: <<replacement, next>>
CharRef(s, i) ==
         LET dEnd == RunEnd(s, i + 2, "digit")
             hEnd == RunEnd(s, i + 3, "hex")
             nEnd == Min(RunEnd(s, i + 1, "name"), i + 32)
             semi(e) == IF Ch(s, e + 1) = ";" THEN e + 1 ELSE e
         IN  IF Ch(s, i + 1) = "#" /\ dEnd >= i + 2
             THEN <<NumRef(ParseInt(SubSeq(s, i + 2, dEnd), 10)), semi(dEnd) + 1>>
             ELSE IF Ch(s, i + 1) = "#" /\ Ch(s, i + 2) \in {"x", "X"} /\ hEnd >= i + 3
             THEN <<NumRef(ParseInt(SubSeq(s, i + 3, hEnd), 16)), semi(hEnd) + 1>>
             ELSE IF nEnd >= i + 1
             THEN <<NamedRef(SubSeq(s, i + 1, semi(nEnd))), semi(nEnd) + 1>>
             ELSE <<"&", i + 1>>

\* html.unescape(s), from position i: the scan goes from one "&" to the next
RECURSIVE Unescape(_, _)
Unescape(s, i) ==
    LET p == FirstOf(s, i, {"&"})
        cr == CharRef(s, p)
    IN  IF p > Len(s) THEN Slice(s, i, Len(s))
        ELSE Slice(s, i, p - 1) \o cr[1] \o Unescape(s, cr[2])

\* match of \s*<open>\s*<word>\s*<close>\s* at position i: its end, 0 when none
MatchBracketed(t, i, open, word, close) ==
    LET a == RunEnd(t, i, "space") + 1
        b == RunEnd(t, a + 1, "space") + 1
        c == RunEnd(t, b + Len(word), "space") + 1
    IN  IF /\ Ch(t, a) = open
           /\ Lower(Slice(t, b, b + Len(word) - 1)) = word
           /\ Ch(t, c) = close
        THEN RunEnd(t, c + 1, "space")
        ELSE 0

\* match of \s+<word>\s+ at position i: its end, 0 when none
MatchSpaced(t, i, word) ==
    LET a == RunEnd(t, i, "space")
        c == RunEnd(t, a + Len(word) + 1, "space")
    IN  IF /\ a >= i
           /\ Lower(Slice(t, a + 1, a + Len(word))) = word
           /\ c >= a + Len(word) + 1
        THEN c
        ELSE 0

\* re.sub(pattern, repl, t, flags=re.IGNORECASE) for the two pattern shapes, from
\* position i.  A match of the first shape holds the character open: the scan goes
\* from one open to the next, and the leftmost match for it begins at the start of
\* the whitespace run before it (not before i).
\* the start of the leftmost candidate match for the first open at or after i
BracketStart(t, i, open) == RunStart(t, FirstOf(t, i, {open}) - 1, i, "space")

BracketEnd(t, i, open, word, close) ==
    MatchBracketed(t, BracketStart(t, i, open), open, word, close)

RECURSIVE SubBracketed(_, _, _, _, _, _)
SubBracketed(t, i, open, word, close, repl) ==
    IF FirstOf(t, i, {open}) > Len(t) THEN Slice(t, i, Len(t))
    ELSE IF BracketEnd(t, i, open, word, close) > 0
    THEN Slice(t, i, BracketStart(t, i, open) - 1) \o repl
             \o SubBracketed(t, BracketEnd(t, i, open, word, close) + 1, open, word, close, repl)
    ELSE Slice(t, i, FirstOf(t, i, {open}))
             \o SubBracketed(t, FirstOf(t, i, {open}) + 1, open, word, close, repl)

\* positions at or after i where word stands (in any case) between two whitespace characters
SpacedAt(t, i, word) ==
    {q \in (i + 1)..(Len(t) - Len(word)) :
        /\ IsSpace(Ch(t, q - 1))
        /\ IsSpace(Ch(t, q + Len(word)))
        /\ Lower(SubSeq(t, q, q + Len(word) - 1)) = word}

\* A match of the second shape holds the word with whitespace on both sides: the
\* scan goes from one such place to the next; the whitespace before it must not
\* have been used up by the previous match.
SpacedStart(t, i, word) == RunStart(t, MinOf(SpacedAt(t, i, word)) - 1, i, "space")

RECURSIVE SubSpaced(_, _, _, _)
SubSpaced(t, i, word, repl) ==
    IF SpacedAt(t, i, word) = {} THEN Slice(t, i, Len(t))
    ELSE Slice(t, i, SpacedStart(t, i, word) - 1) \o repl
             \o SubSpaced(t, MatchSpaced(t, SpacedStart(t, i, word), word) + 1, word, repl)

\* str.replace(c, "") for a single character c
RemoveChar(t, c) == ConcatAll([k \in 1..Len(t) |-> IF Ch(t, k) = c THEN "" ELSE Ch(t, k)])

deobfuscate_text(text) ==
    IF text = "" THEN ""
    ELSE LET t0 == Unescape(text, 1)
             t1 == SubBracketed(t0, 1, "[", "at", "]", "@")
             t2 == SubBracketed(t1, 1, "(", "at", ")", "@")
             t3 == SubSpaced(t2, 1, "at", "@")
             t4 == SubBracketed(t3, 1, "[", "dot", "]", ".")
             t5 == SubBracketed(t4, 1, "(", "dot", ")", ".")
             t6 == SubSpaced(t5, 1, "dot", ".")
         IN  RemoveChar(RemoveChar(RemoveChar(t6, ZWSP), ZWNJ), ZWJ)

GUESS_PATHS ==
    <<"/partnerships", "/partners", "/partner", "/sponsorship", "/sponsor", "/sponsors",
      "/media", "/press", "/advertise", "/advertising", "/brand", "/marketing",
      "/contact", "/contact-us", "/about", "/about-us", "/team", "/people",
      "/investor-relations", "/ir", "/institutional", "/corporate",
      "/contact/", "/about/", "/team/", "/partners/", "/partnerships/">>

DEFAULT_KEYWORDS ==
    <<"contact", "about", "team", "support", "help", "impressum", "imprint",
      "legal", "privacy", "terms", "people", "company", "partners", "partnership",
      "sponsor", "sponsorship", "media", "press", "brand", "advertise", "marketing",
      "institutional", "investor", "ir", "corporate">>

SITEMAP_INTENT ==
    <<"partner", "sponsor", "sponsorship", "advertis", "media", "press", "brand",
      "marketing", "investor", "institutional", "contact", "about", "team">>

SITEMAP_CANDIDATES == <<"/sitemap.xml", "/sitemap_index.xml", "/sitemap-index.xml">>

\* the elements of seq in order, each kept at its first occurrence only
RECURSIVE DedupSeq(_)
DedupSeq(seq) ==
    IF seq = <<>> THEN <<>>
    ELSE LET front == DedupSeq(SubSeq(seq, 1, Len(seq) - 1))
             x == seq[Len(seq)]
         IN  IF x \in Range(front) THEN front ELSE Append(front, x)

\* [x for x in seq if P[x]], for a predicate given as the set of accepted values
RECURSIVE FilterSeq(_, _)
FilterSeq(seq, ok) ==
    IF seq = <<>> THEN <<>>
    ELSE (IF seq[1] \in ok THEN <<seq[1]>> ELSE <<>>) \o FilterSeq(Tail(seq), ok)

Take(seq, n) == SubSeq(seq, 1, Min(n, Len(seq)))

guess_key_pages(base_url) ==
    DedupSeq(<<base_url>> \o [i \in 1..Len(GUESS_PATHS) |-> urljoin(base_url, GUESS_PATHS[i])])

(***************************************************************************)
(* Documents.  BeautifulSoup's parse is not modelled: an HTML document is  *)
(* given in parsed form, a title and a sequence of blocks                  *)
(*     <div><p> text <a href="href">atext</a>                              *)
(*              <span data-cfemail="cfhex">[email protected]</span></p></div> *)
(* (href = "" : no anchor, cfhex = "" : no span), and Html is its          *)
(* serialization, the string the plain-text strategy scans.  The fields    *)
(* hold no markup characters, so parsing Html gives the fields back.       *)
(***************************************************************************)
CF_TEXT == "[email protected]"

Block(text, href, atext, cfhex) == [text |-> text, href |-> href, atext |-> atext, cfhex |-> cfhex]

BlockHtml(b) ==
    "<div><p>" \o b.text
    \o (IF b.href = "" THEN "" ELSE "<a href=\"" \o b.href \o "\">" \o b.atext \o "</a>")
    \o (IF b.cfhex = "" THEN "" ELSE "<span data-cfemail=\"" \o b.cfhex \o "\">" \o CF_TEXT \o "</span>")
    \o "</p></div>"

\* the response body of a document; the document without title and blocks is the empty body
Html(doc) ==
    IF doc.title = "" /\ doc.blocks = <<>> THEN ""
    ELSE "<html><head><title>" \o doc.title \o "</title></head><body>"
         \o ConcatAll([i \in 1..Len(doc.blocks) |-> BlockHtml(doc.blocks[i])])
         \o "</body></html>"

EmptyDoc == [title |-> "", blocks |-> <<>>]

\* " ".join(s.split()): every whitespace run inside the text becomes one space
CollapseWS(s) ==
    LET t == Strip(s)
    IN  ConcatAll([k \in 1..Len(t) |->
                     IF ~ IsSpace(Ch(t, k)) THEN Ch(t, k)
                     ELSE IF IsSpace(Ch(t, k - 1)) THEN "" ELSE " "])

\* the text nodes of a sequence of strings, joined the way get_text(" ", strip=True) joins them
RECURSIVE JoinText(_)
JoinText(ss) ==
    IF ss = <<>> THEN ""
    ELSE LET a == Strip(ss[1])
             r == JoinText(Tail(ss))
         IN  IF a = "" THEN r ELSE IF r = "" THEN a ELSE a \o " " \o r

\* get_text(" ", strip=True) of the <div> of a block
BlockText(b) ==
    JoinText(<<b.text, IF b.href = "" THEN "" ELSE b.atext, IF b.cfhex = "" THEN "" ELSE CF_TEXT>>)

page_text_snippet(doc) ==
    IF Html(doc) = "" THEN ""
    ELSE Slice(CollapseWS(JoinText(<<doc.title>> \o [i \in 1..Len(doc.blocks) |-> BlockText(doc.blocks[i])])),
               1, 70000)

(***************************************************************************)
(* Page extractor.                                                         *)
(***************************************************************************)
RECURSIVE Xor(_, _)
Xor(a, b) ==
    IF a = 0 /\ b = 0 THEN 0
    ELSE 2 * Xor(a \div 2, b \div 2) + (IF (a % 2) = (b % 2) THEN 0 ELSE 1)

\* bytes.fromhex(s): the byte values, <<>> when s is not an even run of hex digits
FromHex(s) ==
    IF Len(s) % 2 = 1 \/ ~ AllChars(s, "hex") THEN <<>>
    ELSE [i \in 1..(Len(s) \div 2) |-> ParseInt(SubSeq(s, 2 * i - 1, 2 * i), 16)]

\* the character of one decoded byte (ASCII; other bytes are outside the alphabet)
ByteChar(b) ==
    IF b >= 32 /\ b <= 126 /\ b \notin {94, 96, 124, 126} THEN Ch(Printable, b - 31) ELSE OtherChar

\* decode_cfemail; None is the empty string
decode_cfemail(cfhex) ==
    LET s == Strip(cfhex)
        data == FromHex(s)
        decoded == ConcatAll([i \in 1..(Len(data) - 1) |-> ByteChar(Xor(data[i + 1], data[1]))])
    IN  IF s = "" \/ Len(s) < 4 \/ data = <<>> THEN ""
        ELSE IF Contains(decoded, "@") /\ Contains(decoded, ".") THEN decoded
        ELSE ""

Row(email, context, cscore) == [email |-> email, context |-> context, context_score |-> cscore]

RECURSIVE CfRowsOf(_)
CfRowsOf(blocks) ==
    IF blocks = <<>> THEN <<>>
    ELSE LET b == blocks[1]
             decoded == decode_cfemail(b.cfhex)
             context == Slice(CollapseWS(CF_TEXT), 1, 200)
         IN  (IF b.cfhex # "" /\ decoded # "" /\ is_valid_email(decoded)
              THEN <<Row(decoded, context, context_score(context))>> ELSE <<>>)
             \o CfRowsOf(Tail(blocks))

extract_cfemails(doc) == CfRowsOf(doc.blocks)

IsMailto(b) == b.href # "" /\ StartsWith(Lower(Strip(b.href)), "mailto:")

\* href.split("mailto:", 1)[1] raises IndexError when the href spells the scheme in another case
MailtoRaises(doc) ==
    \E i \in 1..Len(doc.blocks) : IsMailto(doc.blocks[i]) /\ ~ Contains(doc.blocks[i].href, "mailto:")

\* href.split("mailto:", 1)[1]
AfterMailto(h) == Slice(h, Find(h, "mailto:") + 7, Len(h))

\* s.split("?")[0]
FirstOfSplit(s) == Slice(s, 1, FirstOf(s, 1, {"?"}) - 1)

\* lines 513-516: the address of a mailto href, up to the first "?"
MailtoEmail(b) ==
    deobfuscate_text(Strip(FirstOfSplit(AfterMailto(Strip(b.href)))))

\* lines 520-525: anchor text and parent text around the link
MailtoContext(b) ==
    Strip(Slice(CollapseWS(b.atext), 1, 120) \o " " \o Slice(CollapseWS(BlockText(b)), 1, 240))

\* lines 517-528: the row of one mailto link, none for an invalid address
MailtoRow(em, cx) ==
    IF is_valid_email(em) THEN <<Row(em, Slice(cx, 1, 300), context_score(cx))>> ELSE <<>>

RECURSIVE MailtoRowsOf(_)
MailtoRowsOf(blocks) ==
    IF blocks = <<>> THEN <<>>
    ELSE (IF IsMailto(blocks[1])
          THEN MailtoRow(MailtoEmail(blocks[1]), MailtoContext(blocks[1])) ELSE <<>>)
         \o MailtoRowsOf(Tail(blocks))

extract_mailto_with_context(doc) == MailtoRowsOf(doc.blocks)

extract_emails_from_html(html) ==
    IF html = "" THEN {}
    ELSE {e \in EMAIL_RE_findall(deobfuscate_text(html), 1) : is_valid_email(e)}

\* the links of find_relevant_links before its de-duplication
RECURSIVE LinksOf(_, _, _)
LinksOf(base_url, blocks, keywords) ==
    IF blocks = <<>> THEN <<>>
    ELSE LET href == Strip(blocks[1].href)
             absolute == urljoin(base_url, href)
         IN  (IF /\ href # ""
                 /\ ~ (StartsWith(href, "mailto:") \/ StartsWith(href, "tel:") \/ StartsWith(href, "javascript:"))
                 /\ same_domain(base_url, absolute)
                 /\ AnyIn(keywords, Lower(UrlPath(absolute)))
              THEN <<absolute>> ELSE <<>>)
             \o LinksOf(base_url, Tail(blocks), keywords)

find_relevant_links(base_url, doc, keywords, max_links) ==
    Take(DedupSeq(LinksOf(base_url, doc.blocks, keywords)), max_links)

(***************************************************************************)
(* Role hints.                                                             *)
(***************************************************************************)
ROLE_HINTS ==
    <<"head of partnerships", "partnerships manager", "partnership manager",
      "head of marketing", "marketing director", "brand director", "head of brand",
      "head of communications", "communications director", "pr director", "press office",
      "business development", "biz dev", "institutional sales", "client solutions",
      "investor relations", "corporate development", "strategic alliances">>

\* code point order of two characters of the alphabet
Ord(c) == Find(Printable, c)

\* Python's a < b on strings
RECURSIVE StrLess(_, _)
StrLess(a, b) ==
    IF b = "" THEN FALSE
    ELSE IF a = "" THEN TRUE
    ELSE IF Ch(a, 1) = Ch(b, 1) THEN StrLess(SubSeq(a, 2, Len(a)), SubSeq(b, 2, Len(b)))
    ELSE Ord(Ch(a, 1)) < Ord(Ch(b, 1))

\* sorted(S) for a finite set of strings
RECURSIVE SortedStrings(_)
SortedStrings(S) ==
    IF S = {} THEN <<>>
    ELSE LET m == CHOOSE x \in S : \A y \in S \ {x} : StrLess(x, y)
         IN  <<m>> \o SortedStrings(S \ {m})

RECURSIVE JoinWith(_, _)
JoinWith(ss, sep) ==
    IF ss = <<>> THEN ""
    ELSE IF Len(ss) = 1 THEN ss[1]
    ELSE ss[1] \o sep \o JoinWith(Tail(ss), sep)

extract_role_hints(text) ==
    LET t == Lower(text)
        hits == {ROLE_HINTS[i] : i \in {j \in 1..Len(ROLE_HINTS) : Contains(t, ROLE_HINTS[j])}}
    IN  JoinWith(Take(SortedStrings(hits), 8), ", ")

(***************************************************************************)
(* The environment: one web site.  A site answers a URL with a response    *)
(* (status, Content-Type, final URL, content) or with a connection         *)
(* failure; the response to a URL does not change during a scan.           *)
(***************************************************************************)
SITE_HOST == "firm.co.uk"

NoXml == [wellformed |-> FALSE, root |-> "", locs |-> <<>>]

Xml(root, locs) == [wellformed |-> TRUE, root |-> root, locs |-> locs]

Response(status, ctype, url, doc, xml) ==
    [exc |-> FALSE, msg |-> "", status |-> status, ctype |-> ctype, url |-> url, doc |-> doc, xml |-> xml]

ConnectionFailure(url) ==
    [exc |-> TRUE, msg |-> "HTTPSConnectionPool: Max retries exceeded with url", status |-> 0,
     ctype |-> "", url |-> url, doc |-> EmptyDoc, xml |-> NoXml]

HomeDoc ==
    [title |-> "Firm Capital",
     blocks |-> << Block("We offer asset management for institutional clients", "/partnerships", "Partners", ""),
                   Block("Sponsorship enquiries", "mailto:partnerships@firm.co.uk", "Sponsorship enquiries", ""),
                   Block("our sponsor", "mailto:hello@firm.co.uk", "Contact", ""),
                   Block("", "https://other.com/contact", "Other", ""),
                   Block("", "/news/press", "Press office", "") >>]

PartnersDoc ==
    [title |-> "Partners",
     blocks |-> << Block("Become a partner hello@firm.co.uk", "mailto:Partnerships@Firm.co.uk?subject=Hi", "Sponsorship", ""),
                   Block("icons logo@2x.png noreply@firm.co.uk careers@firm.co.uk", "", "", "") >>]

ContactDoc ==
    [title |-> "Contact",
     blocks |-> << Block("Write to info [at] firm [dot] co [dot] uk", "mailto:info@firm.co.uk", "Contact press office", ""),
                   Block("", "mailto:bad/addr@firm.co.uk", "x", ""),
                   Block("", "mailto:noreply-events@firm.co.uk", "Events", ""),
                   Block("", "", "", "2b5b4a595f454e595843425b586b4d425946054844055e40"),
                   Block("", "", "", "2b45444f445f") >>]

TeamDoc ==
    [title |-> "Team",
     blocks |-> << Block("Jane Doe head of partnerships", "mailto:jane.doe@gmail.com", "Jane", ""),
                   Block("HR", "mailto:HR@firm.co.uk", "People team", "") >>]

\* a page whose mailto link spells the scheme in capitals
ShoutDoc ==
    [title |-> "Team",
     blocks |-> << Block("", "MAILTO:team@firm.co.uk", "Team", "") >>]

DocOf(kind) ==
    CASE kind = "home" -> HomeDoc
      [] kind = "partners" -> PartnersDoc
      [] kind = "contact" -> ContactDoc
      [] kind = "team" -> TeamDoc
      [] kind = "shout" -> ShoutDoc
      [] OTHER -> EmptyDoc

DOCS == {DocOf(k) : k \in {"home", "partners", "contact", "team", "shout", "empty"}}

\* a filter in which allowing low-value addresses also lets the trap addresses through
candidate_kept_trap_allowed(e, allow_low) ==
    /\ is_valid_email(e)
    /\ allow_low \/ (classify_email_relevance(e) # "Low" /\ ~ is_trap_email(e))

\* lines 908-917: a candidate address goes on to be recorded
candidate_kept(e, allow_low) ==
    /\ is_valid_email(e)
    /\ ~ (~ allow_low /\ classify_email_relevance(e) = "Low")
    /\ ~ is_trap_email(e)

\* the orders in which a Python set of strings can be iterated
Orders(S) == {f \in [1..Cardinality(S) -> S] : \A i, j \in 1..Cardinality(S) : f[i] = f[j] => i = j}

\* What scan_site computes from the body of a page (lines 840-843 and 884-898),
\* tabulated once for each document a site of the model serves.  The iteration
\* order of the set emails (line 905) is not fixed; a candidate that lines 908-917
\* drop leaves no trace, so plain_orders holds the orders of the ones that stay.
PAGE ==
    [d \in DOCS |->
        [html |-> Html(d),
         text |-> page_text_snippet(d),
         sponsor_hits |-> sponsor_language_score(page_text_snippet(d)),
         role_hints |-> extract_role_hints(page_text_snippet(d)),
         raises |-> MailtoRaises(d),
         cf_rows |-> extract_cfemails(d),
         mailto_rows |-> IF MailtoRaises(d) THEN <<>> ELSE extract_mailto_with_context(d),
         emails |-> extract_emails_from_html(Html(d)),
         plain_orders |-> [a \in BOOLEAN |->
                             Orders({e \in extract_emails_from_html(Html(d)) :
                                        candidate_kept(Strip(e), a)})]]]

\* requests' r.url: a URL without a path gets the path "/"
FinalUrl(url) == IF UrlPath(url) = "" THEN url \o "/" ELSE url

SITEMAP_LOCS ==
    <<"https://firm.co.uk/team", "https://firm.co.uk/blog/post",
      "https://other.com/contact", "https://firm.co.uk/events/sponsors">>

\* the sitemap documents of a site, by profile and path; NoXml: no such document
SitemapXml(profile, path) ==
    CASE profile \in {"urlset", "xml"} /\ path = "/sitemap.xml" ->
            Xml("{http://www.sitemaps.org/schemas/sitemap/0.9}urlset", SITEMAP_LOCS)
      [] profile = "index" /\ path = "/sitemap.xml" ->
            Xml("{http://www.sitemaps.org/schemas/sitemap/0.9}sitemapindex",
                <<"https://firm.co.uk/sitemap-pages.xml", "https://cdn.other.com/sitemap.xml",
                  "https://firm.co.uk/sitemap-news.xml", "https://firm.co.uk/sitemap-tags.xml",
                  "https://firm.co.uk/sitemap-2024.xml", "https://firm.co.uk/sitemap-2023.xml">>)
      [] profile = "index" /\ path = "/sitemap-pages.xml" -> Xml("urlset", SITEMAP_LOCS)
      [] profile = "empty" /\ path = "/sitemap.xml" ->
            Xml("{http://www.sitemaps.org/schemas/sitemap/0.9}urlset", <<>>)
      [] profile = "empty" /\ path = "/sitemap_index.xml" -> Xml("urlset", SITEMAP_LOCS)
      [] OTHER -> NoXml

\* the Content-Type a site serves its sitemap documents with
SitemapCtype(profile) ==
    IF profile = "xml" THEN "application/xml" ELSE "text/html; charset=utf-8"

\* the kind of answer the site gives for a path
KindOf(st, path) ==
    CASE path \in {"", "/"} -> st.home
      [] path = "/partnerships" -> st.partners
      [] path = "/contact" -> st.contact
      [] path = "/team" -> st.team
      [] OTHER -> st.other

\* the host of a site: SITE_HOST, unless the site names another
HostOf(st) == IF "host" \in DOMAIN st THEN st.host ELSE SITE_HOST

Respond(st, url) ==
    LET path == UrlPath(url)
        sx == SitemapXml(st.sitemap, path)
        kind == KindOf(st, path)
    IN  IF domain_of(url) # HostOf(st) \/ kind = "exc" THEN ConnectionFailure(url)
        ELSE IF sx # NoXml THEN Response(200, SitemapCtype(st.sitemap), FinalUrl(url), EmptyDoc, sx)
        ELSE IF kind = "404" THEN Response(404, "text/html", FinalUrl(url), EmptyDoc, NoXml)
        ELSE IF kind = "500" THEN Response(500, "text/html", FinalUrl(url), EmptyDoc, NoXml)
        ELSE IF kind = "pdf" THEN Response(200, "application/pdf", FinalUrl(url), DocOf("home"), NoXml)
        ELSE Response(200, "text/html; charset=utf-8", FinalUrl(url), DocOf(kind), NoXml)

\* a GET that takes any answer of the server for a page, whatever its status
safe_get_unchecked(url, r) ==
    IF r.exc THEN [ok |-> FALSE, err |-> r.msg, url |-> r.url, doc |-> EmptyDoc, xml |-> NoXml]
    ELSE [ok |-> TRUE, err |-> "", url |-> r.url, doc |-> r.doc, xml |-> r.xml]

\* a GET that raises for a body that is not HTML
safe_get_html_only(url, r) ==
    IF r.exc THEN [ok |-> FALSE, err |-> r.msg, url |-> r.url, doc |-> EmptyDoc, xml |-> NoXml]
    ELSE IF r.status >= 400
            \/ (~ Contains(Lower(r.ctype), "text/html") /\ ~ Contains(Lower(r.ctype), "application/xhtml"))
    THEN [ok |-> FALSE, url |-> r.url, doc |-> EmptyDoc, xml |-> NoXml,
          err |-> "HTTP " \o ToString(r.status) \o " for " \o url \o " (final: " \o r.url \o ")"]
    ELSE [ok |-> TRUE, err |-> "", url |-> r.url, doc |-> r.doc, xml |-> r.xml]

\* safe_get (lines 312-323): the outcome of one GET as seen by the caller
safe_get(url, r) ==
    IF r.exc THEN [ok |-> FALSE, err |-> r.msg, url |-> r.url, doc |-> EmptyDoc, xml |-> NoXml]
    ELSE IF r.status >= 400
    THEN [ok |-> FALSE, url |-> r.url, doc |-> EmptyDoc, xml |-> NoXml,
          err |-> "HTTP " \o ToString(r.status) \o " for " \o url \o " (final: " \o r.url \o ")"]
    ELSE IF ~ Contains(Lower(r.ctype), "text/html") /\ ~ Contains(Lower(r.ctype), "application/xhtml")
    THEN [ok |-> TRUE, err |-> "", url |-> r.url, doc |-> EmptyDoc, xml |-> NoXml]
    ELSE [ok |-> TRUE, err |-> "", url |-> r.url, doc |-> r.doc, xml |-> r.xml]

(***************************************************************************)
(* The session of get_http_session (lines 266-281): every GET goes through *)
(* an HTTPAdapter with Retry(total=3, connect=3, read=3,                   *)
(* status_forcelist=(429, 500, 502, 503, 504), raise_on_status=False).     *)
(* urllib3 counts retries: a failed attempt decrements the counters, and   *)
(* the request is given up when a counter has fallen below zero.           *)
(***************************************************************************)
RETRY == [total |-> 3, connect |-> 3, read |-> 3]

STATUS_FORCELIST == {429, 500, 502, 503, 504}

\* what the server does with one attempt: a status, or a connection or read failure
Answer(status) == [fail |-> "", status |-> status]
Failure(kind) == [fail |-> kind, status |-> 0]

\* Retry.increment: the counters after a failed attempt
increment(retry, a) ==
    [total |-> retry.total - 1,
     connect |-> IF a.fail = "connect" THEN retry.connect - 1 ELSE retry.connect,
     read |-> IF a.fail = "read" THEN retry.read - 1 ELSE retry.read]

\* Retry.is_exhausted
is_exhausted(retry) == retry.total < 0 \/ retry.connect < 0 \/ retry.read < 0

\* the answer to attempt i of a server described by the sequence answers,
\* which goes on with its last answer
AnswerAt(answers, i) == answers[IF i <= Len(answers) THEN i ELSE Len(answers)]

\* session.get (line 314): the attempts sent for one call, and what comes back:
\* the response of the last attempt, or the exception of the exhausted retries
RECURSIVE session_get(_, _, _, _)
session_get(url, answers, i, retry) ==
    IF AnswerAt(answers, i).fail # ""
    THEN IF is_exhausted(increment(retry, AnswerAt(answers, i)))
         THEN [attempts |-> i, response |-> ConnectionFailure(url)]
         ELSE session_get(url, answers, i + 1, increment(retry, AnswerAt(answers, i)))
    ELSE IF AnswerAt(answers, i).status \in STATUS_FORCELIST
            /\ ~ is_exhausted(increment(retry, AnswerAt(answers, i)))
    THEN session_get(url, answers, i + 1, increment(retry, AnswerAt(answers, i)))
    ELSE [attempts |-> i,
          response |-> Response(AnswerAt(answers, i).status, "text/html; charset=utf-8",
                                FinalUrl(url), HomeDoc, NoXml)]

(***************************************************************************)
(* scan_site: rows, de-duplication and ranking.                            *)
(***************************************************************************)
\* lines 919-930: the row recorded for a kept candidate
found_row(r, url, pt, dm) ==
    LET e == Strip(r.email)
    IN  [email |-> e, relevance |-> classify_email_relevance(e), page_url |-> url,
         page_type |-> pt, context |-> Slice(r.context, 1, 300),
         context_score |-> r.context_score, domain_bonus |-> domain_match_bonus(e, dm)]

RECURSIVE rows_of_page(_, _, _, _, _)
rows_of_page(source_rows, url, pt, dm, allow_low) ==
    IF source_rows = <<>> THEN <<>>
    ELSE (IF candidate_kept(Strip(source_rows[1].email), allow_low)
          THEN <<found_row(source_rows[1], url, pt, dm)>> ELSE <<>>)
         \o rows_of_page(Tail(source_rows), url, pt, dm, allow_low)

default_ctx(pt) == IF pt \in {"Partnerships", "Investor Relations", "Contact"} THEN 10 ELSE 2

\* lines 896-906: the candidates of a page, plain-text matches in iteration order
source_rows_of(cf_rows, mailto_rows, pt, order) ==
    cf_rows \o mailto_rows \o [i \in 1..Len(order) |-> Row(order[i], "", default_ctx(pt))]

page_type_rank(pt) ==
    CASE pt \in {"Partnerships", "Investor Relations"} -> 6
      [] pt = "Contact" -> 5
      [] pt = "About" -> 3
      [] pt = "Team" -> 2
      [] pt = "Homepage" -> 1
      [] pt \in {"Legal", "Careers"} -> -2
      [] OTHER -> 0

rel_rank(rel) ==
    CASE rel = "High" -> 3
      [] rel = "Medium" -> 2
      [] OTHER -> 1

\* a ranking key in which the score does not outweigh the page type
composite_key_flat(row) ==
    row.sponsor_fit_score + page_type_rank(row.page_type) + rel_rank(row.relevance)

\* lines 975-976
composite_key(row) ==
    row.sponsor_fit_score * 10 + page_type_rank(row.page_type) + rel_rank(row.relevance)

\* lines 950-969: a found row with the site profile and its score
enrich(row, org_type, size_proxy, geo_hint, hits) ==
    [email |-> row.email, relevance |-> row.relevance, page_url |-> row.page_url,
     page_type |-> row.page_type, context |-> row.context,
     context_score |-> row.context_score, domain_bonus |-> row.domain_bonus,
     org_type |-> org_type, size_proxy |-> size_proxy, geo_hint |-> geo_hint,
     sponsor_language_hits |-> hits,
     sponsor_fit_score |-> sponsor_fit_score(row.relevance, org_type, size_proxy, geo_hint,
                                             hits, row.context_score, row.domain_bonus)]

\* a collision rule that always keeps the later discovery
dedup_insert_last(acc, new) ==
    LET ks == {k \in 1..Len(acc) : Lower(acc[k].email) = Lower(new.email)}
    IN  IF ks = {} THEN Append(acc, new)
        ELSE [acc EXCEPT ![CHOOSE k \in ks : TRUE] = new]

\* lines 971-978: dedup is a dict in insertion order, here the sequence of its values
dedup_insert(acc, new) ==
    LET ks == {k \in 1..Len(acc) : Lower(acc[k].email) = Lower(new.email)}
    IN  IF ks = {} THEN Append(acc, new)
        ELSE LET k == CHOOSE x \in ks : TRUE
             IN  IF composite_key(new) > composite_key(acc[k]) THEN [acc EXCEPT ![k] = new] ELSE acc

RECURSIVE dedup_rows(_)
dedup_rows(enriched) ==
    IF enriched = <<>> THEN <<>>
    ELSE dedup_insert(dedup_rows(SubSeq(enriched, 1, Len(enriched) - 1)), enriched[Len(enriched)])

\* insertion of x into a list sorted by score descending, after the entries of equal score
RECURSIVE insert_by_score(_, _)
insert_by_score(sorted, x) ==
    IF sorted = <<>> THEN <<x>>
    ELSE IF sorted[1].sponsor_fit_score >= x.sponsor_fit_score
    THEN <<sorted[1]>> \o insert_by_score(Tail(sorted), x)
    ELSE <<x>> \o sorted

RECURSIVE sort_by_score(_)

\* a ranking step that leaves the retained entries in discovery order
sort_by_score_skipped(rows) == rows

\* line 981: list.sort(key=score, reverse=True), a stable sort
sort_by_score(rows) ==
    IF rows = <<>> THEN <<>>
    ELSE insert_by_score(sort_by_score(SubSeq(rows, 1, Len(rows) - 1)), rows[Len(rows)])

\* a frontier that keeps every same-domain target, repeated ones included
final_targets_with_repeats(tgts, b) == FilterSeq(tgts, {u \in Range(tgts) : same_domain(b, u)})

\* lines 857-862
final_targets_of(tgts, b) ==
    DedupSeq(FilterSeq(tgts, {u \in Range(tgts) : same_domain(b, u)}))

\* lines 852-855: the sitemap URLs added to the targets
sitemap_targets(urls) ==
    Take(FilterSeq(urls, {u \in Range(urls) : AnyIn(SITEMAP_INTENT, Lower(UrlPath(u)))}), 25)

\* lines 679-686: the value try_fetch_sitemap returns for the collected urls
sitemap_result(b, urls) ==
    DedupSeq(FilterSeq(urls, {u \in Range(urls) : same_domain(b, u)}))

\* the <loc> texts of a parsed document: el.text.strip() of every non-empty loc
locs_of(xml) == FilterSeq([i \in 1..Len(xml.locs) |-> Strip(xml.locs[i])],
                          {Strip(xml.locs[i]) : i \in 1..Len(xml.locs)} \ {""})

(***************************************************************************)
(* Bounds and inputs.                                                      *)
(***************************************************************************)
\* max_pages ranges over 1..MaxPagesBound (the slider allows 1..40)
MaxPagesBound == 3

\* a server is described by its answers to the first MaxAnswers attempts of a GET
MaxAnswers == 4

ATTEMPT_ANSWERS ==
    {Answer(200), Answer(404), Answer(429), Answer(503), Failure("connect"), Failure("read")}

GET_ARGS == {<<"https://firm.co.uk/", a>> : a \in [1..MaxAnswers -> ATTEMPT_ANSWERS]}

\* the texts given to deobfuscate_text: up to MaxTokens pieces, one after the other
MaxTokens == 2

DEOB_TOKENS ==
    {"jane", " [at] ", " at ", "(dot)", "&amp;", "amp;", "&#64;", "&commat;", "[a", "t]", ZWSP, " "}

DEOB_ARGS ==
    {<<ConcatAll(ts)>> : ts \in UNION {[1..n -> DEOB_TOKENS] : n \in 1..MaxTokens}}
    \cup {<<"jane [at] example [dot] com">>, <<"jane [a" \o ZWSP \o "t] x.com">>}

\* the addresses classified directly: every hint word of the three lists, and
\* local parts that hold no hint, at a domain without and with a hint word
CLASSIFY_LOCALPARTS ==
    Range(HIGH_VALUE_HINTS) \cup Range(LOW_VALUE_HINTS) \cup Range(MEDIUM_VALUE_HINTS)
        \cup {"partnerships", "jane", "sales", "j.smith", "Info", "CAREERS"}

CLASSIFY_ARGS == {<<lp \o "@" \o d>> : lp \in CLASSIFY_LOCALPARTS, d \in {"x.com", "press.org"}}

INPUT_URLS == {"firm.co.uk", "https://firm.co.uk/contact"}

\* the sites: every combination of page answers for a reachable home page, and
\* the sites with an unreachable home page whose other pages are missing, apart
\* from the contact page; a site whose pages all answer serves, besides, a
\* sitemap without URLs followed by one with URLs ("empty"), or its sitemap as
\* application/xml ("xml")
SITES ==
    {st \in [home : {"home", "pdf", "500", "exc"}, partners : {"partners", "404"},
             contact : {"contact", "500"}, team : {"team", "shout", "exc"},
             other : {"404", "pdf"}, sitemap : {"none", "urlset", "index", "empty", "xml"}] :
        /\ st.home \in {"500", "exc"} =>
               /\ st.partners = "404" /\ st.team = "exc"
               /\ st.other = "404" /\ st.sitemap = "none"
        /\ st.sitemap \in {"empty", "xml"} =>
               /\ st.home = "home" /\ st.partners = "partners" /\ st.contact = "contact"
               /\ st.team = "team" /\ st.other = "404"}

\* arguments for direct calls of sponsor_fit_score
FIT_ARGS ==
    {"High", "Medium", "Low", "Unknown"}
    \X {"Asset Manager", "Media / Research", "Corporate / Other"}
    \X {"Large / Institutional", "Small", "Unknown"}
    \X {"UK", "France", "Global / Unknown"}
    \X {0, 5, 1000}
    \X {0, 20, 1000}
    \X {-10, 0, 10}

(***************************************************************************)
(* State of one scan_site call.                                            *)
(***************************************************************************)
VARIABLES
    site,            \* the web site being scanned
    input_url,       \* the seed string as given
    max_pages, use_sitemap, allow_low_value,
    pc,              \* "start", "sitemap", "sitemap_child", "loop", "done"; "<f>_call", "<f>_ret"
    start_url, dom, final_url, base,
    pages_scanned, errors, all_text, sponsor_hits, role_hints,
    found_rows, visited, fetch_errors, signals,
    targets,         \* the frontier before de-duplication
    sm_i, sm_urls, sm_children,   \* try_fetch_sitemap: candidate index, urls, children left
    final_targets, idx,           \* the frontier and the loop position
    result,          \* the returned ScanResult, <<>> before the return
    log,             \* the requests and sleeps issued so far, in order
    fit_args, fit_out,            \* a direct call of sponsor_fit_score
    call_args, call_out,          \* a direct call of another function of the program
    other            \* a second scan_site call in progress: its number and its variables

vars == <<site, input_url, max_pages, use_sitemap, allow_low_value, pc, start_url, dom,
          final_url, base, pages_scanned, errors, all_text, sponsor_hits, role_hints,
          found_rows, visited, fetch_errors, signals, targets, sm_i, sm_urls, sm_children,
          final_targets, idx, result, log, fit_args, fit_out, call_args, call_out,
          other>>

inputs == <<site, input_url, max_pages, use_sitemap, allow_low_value, start_url, fit_args,
            call_args, other>>

Fetch(url, kind) == [ev |-> "fetch", url |-> url, kind |-> kind]
Sleep == [ev |-> "sleep", url |-> "", kind |-> ""]

\* lines 816-831
ScanInit ==
    /\ site \in SITES
    /\ input_url \in INPUT_URLS
    /\ max_pages \in 1..MaxPagesBound
    /\ use_sitemap \in BOOLEAN
    /\ use_sitemap = FALSE => site.sitemap = "none"
    /\ allow_low_value \in BOOLEAN
    /\ pc = "start"
    /\ start_url = normalise_url(input_url)
    /\ dom = domain_of(normalise_url(input_url))
    /\ final_url = normalise_url(input_url)
    /\ base = ""
    /\ pages_scanned = 0
    /\ errors = ""
    /\ all_text = ""
    /\ sponsor_hits = 0
    /\ role_hints = ""
    /\ found_rows = <<>>
    /\ visited = {}
    /\ fetch_errors = <<>>
    /\ signals = [has_careers_page |-> FALSE, has_team_page |-> FALSE]
    /\ targets = <<>>
    /\ sm_i = 1
    /\ sm_urls = <<>>
    /\ sm_children = <<>>
    /\ final_targets = <<>>
    /\ idx = 1
    /\ result = <<>>
    /\ log = <<>>
    /\ fit_args = <<>>
    /\ fit_out = 0
    /\ call_args = <<>>
    /\ call_out = <<>>
    /\ other = <<>>

\* the variables of scan_site when no scan is run
NoScan ==
    /\ site = CHOOSE st \in SITES : st.home = "exc" /\ st.contact = "500"
    /\ input_url = "" /\ start_url = "" /\ dom = "" /\ final_url = "" /\ base = ""
    /\ max_pages = 1 /\ use_sitemap = FALSE /\ allow_low_value = FALSE
    /\ pages_scanned = 0 /\ errors = "" /\ all_text = "" /\ sponsor_hits = 0 /\ role_hints = ""
    /\ found_rows = <<>> /\ visited = {} /\ fetch_errors = <<>>
    /\ signals = [has_careers_page |-> FALSE, has_team_page |-> FALSE]
    /\ targets = <<>> /\ sm_i = 1 /\ sm_urls = <<>> /\ sm_children = <<>>
    /\ final_targets = <<>> /\ idx = 1 /\ result = <<>> /\ log = <<>>
    /\ other = <<>>

\* a direct call of sponsor_fit_score with arguments of any kind
FitInit ==
    /\ fit_args \in FIT_ARGS
    /\ pc = "fit_call"
    /\ NoScan
    /\ fit_out = 0
    /\ call_args = <<>>
    /\ call_out = <<>>

\* a direct call of safe_get for a URL whose server answers in any way
SafeGetInit ==
    /\ call_args \in GET_ARGS
    /\ pc = "get_call"
    /\ NoScan
    /\ fit_args = <<>>
    /\ fit_out = 0
    /\ call_out = <<>>

\* a direct call of deobfuscate_text
DeobfuscateInit ==
    /\ call_args \in DEOB_ARGS
    /\ pc = "deob_call"
    /\ NoScan
    /\ fit_args = <<>>
    /\ fit_out = 0
    /\ call_out = <<>>

\* a direct call of classify_email_relevance
ClassifyInit ==
    /\ call_args \in CLASSIFY_ARGS
    /\ pc = "classify_call"
    /\ NoScan
    /\ fit_args = <<>>
    /\ fit_out = 0
    /\ call_out = <<>>

(***************************************************************************)
(* Two scan_site calls in progress at once.  The variables of scan_site    *)
(* are local to a call (lines 816-831); the variables above are those of   *)
(* the call that is running, and other holds those of the call that waits. *)
(***************************************************************************)
\* the variables of the running call
Frame ==
    [site |-> site, input_url |-> input_url, max_pages |-> max_pages,
     use_sitemap |-> use_sitemap, allow_low_value |-> allow_low_value, pc |-> pc,
     start_url |-> start_url, dom |-> dom, final_url |-> final_url, base |-> base,
     pages_scanned |-> pages_scanned, errors |-> errors, all_text |-> all_text,
     sponsor_hits |-> sponsor_hits, role_hints |-> role_hints, found_rows |-> found_rows,
     visited |-> visited, fetch_errors |-> fetch_errors, signals |-> signals,
     targets |-> targets, sm_i |-> sm_i, sm_urls |-> sm_urls, sm_children |-> sm_children,
     final_targets |-> final_targets, idx |-> idx, result |-> result, log |-> log]

\* lines 816-831: the variables of a call that has just begun
InitialFrame(st, url, pages, sitemap, allow_low) ==
    [site |-> st, input_url |-> url, max_pages |-> pages, use_sitemap |-> sitemap,
     allow_low_value |-> allow_low, pc |-> "start", start_url |-> normalise_url(url),
     dom |-> domain_of(normalise_url(url)), final_url |-> normalise_url(url), base |-> "",
     pages_scanned |-> 0, errors |-> "", all_text |-> "", sponsor_hits |-> 0,
     role_hints |-> "", found_rows |-> <<>>, visited |-> {}, fetch_errors |-> <<>>,
     signals |-> [has_careers_page |-> FALSE, has_team_page |-> FALSE], targets |-> <<>>,
     sm_i |-> 1, sm_urls |-> <<>>, sm_children |-> <<>>, final_targets |-> <<>>, idx |-> 1,
     result |-> <<>>, log |-> <<>>]

MaxPairPages == 2

SECOND_HOST == "fund.fr"

SECOND_SEED == "https://fund.fr/contact"

\* the two sites scanned together: one at SITE_HOST, one at SECOND_HOST
FIRST_SITES ==
    {st \in SITES : /\ st.home \in {"home", "500"} /\ st.partners = "404" /\ st.contact = "contact"
                    /\ st.team = "exc" /\ st.other = "404" /\ st.sitemap \in {"none", "index"}}

SECOND_SITES ==
    {[home |-> h, partners |-> "partners", contact |-> "contact", team |-> "shout", other |-> "404",
      sitemap |-> "urlset", host |-> SECOND_HOST] : h \in {"home", "500"}}

ConcurrentInit ==
    /\ \E st \in FIRST_SITES, pages \in 1..MaxPairPages :
       \E f \in {InitialFrame(st, "firm.co.uk", pages, st.sitemap # "none", TRUE)} :
          /\ site = f.site
          /\ input_url = f.input_url
          /\ max_pages = f.max_pages
          /\ use_sitemap = f.use_sitemap
          /\ allow_low_value = f.allow_low_value
          /\ pc = f.pc
          /\ start_url = f.start_url
          /\ dom = f.dom
          /\ final_url = f.final_url
          /\ base = f.base
          /\ pages_scanned = f.pages_scanned
          /\ errors = f.errors
          /\ all_text = f.all_text
          /\ sponsor_hits = f.sponsor_hits
          /\ role_hints = f.role_hints
          /\ found_rows = f.found_rows
          /\ visited = f.visited
          /\ fetch_errors = f.fetch_errors
          /\ signals = f.signals
          /\ targets = f.targets
          /\ sm_i = f.sm_i
          /\ sm_urls = f.sm_urls
          /\ sm_children = f.sm_children
          /\ final_targets = f.final_targets
          /\ idx = f.idx
          /\ result = f.result
          /\ log = f.log
    /\ \E st \in SECOND_SITES, pages \in 1..MaxPairPages :
           other = [id |-> 2, frame |-> InitialFrame(st, SECOND_SEED, pages, st.sitemap # "none", FALSE)]
    /\ fit_args = <<>>
    /\ fit_out = 0
    /\ call_args = <<>>
    /\ call_out = <<>>

Init == ScanInit \/ FitInit \/ SafeGetInit \/ DeobfuscateInit \/ ClassifyInit

(***************************************************************************)
(* Actions of scan_site.                                                   *)
(***************************************************************************)
\* lines 1003-1023: the ScanResult returned when the seed page cannot be fetched
failed_result(err) ==
    [input_url |-> start_url, final_url |-> start_url, domain |-> dom,
     pages_scanned |-> pages_scanned, sponsor_lang_hits |-> 0,
     org_type |-> "Corporate / Other", org_conf |-> 20, size_proxy |-> "Small", size_conf |-> 50,
     geo_hint |-> geo_hint_from_domain(dom), role_hints |-> "", errors |-> err, emails |-> <<>>]

\* line 834 raising: the except branch of lines 1003-1023
SeedFetchFails ==
    /\ pc = "start"
    /\ LET r == safe_get(start_url, Respond(site, start_url))
       IN  /\ ~ r.ok
           /\ log' = Append(log, Fetch(start_url, "seed"))
           /\ errors' = r.err
           /\ result' = failed_result(r.err)
           /\ pc' = "done"
    /\ UNCHANGED <<inputs, dom, final_url, base, pages_scanned, all_text, sponsor_hits,
                   role_hints, found_rows, visited, fetch_errors, signals, targets, sm_i,
                   sm_urls, sm_children, final_targets, idx, fit_out, call_out>>

\* lines 834-848 (and 857-862 when no sitemap is used)
SeedFetchOk ==
    /\ pc = "start"
    /\ \E r \in {safe_get(start_url, Respond(site, start_url))} :
       \E b \in {build_base(r.url)}, page \in {PAGE[r.doc]} :
       \E t \in {guess_key_pages(b)
                 \o (IF page.html # "" THEN find_relevant_links(r.url, r.doc, DEFAULT_KEYWORDS, 25)
                     ELSE <<>>)} :
           /\ r.ok
           /\ log' = Append(log, Fetch(start_url, "seed"))
           /\ final_url' = r.url
           /\ pages_scanned' = pages_scanned + 1
           /\ base' = b
           /\ dom' = (IF domain_of(r.url) # "" THEN domain_of(r.url) ELSE dom)
           /\ all_text' = all_text \o " " \o page.text
           /\ sponsor_hits' = sponsor_hits + page.sponsor_hits
           /\ role_hints' = page.role_hints
           /\ targets' = t
           /\ IF use_sitemap
              THEN pc' = "sitemap" /\ final_targets' = final_targets
              ELSE pc' = "loop" /\ final_targets' = final_targets_of(t, b)
    /\ UNCHANGED <<inputs, errors, found_rows, visited, fetch_errors, signals, sm_i, sm_urls,
                   sm_children, idx, result, fit_out, call_out>>

\* a probe that goes through all the candidates, whatever they yield
AfterCandidate_probing_all(urls) ==
    /\ sm_urls' = urls
    /\ sm_children' = <<>>
    /\ IF sm_i = Len(SITEMAP_CANDIDATES)
       THEN /\ targets' = targets \o (IF sitemap_result(base, urls) # <<>>
                                      THEN sitemap_targets(sitemap_result(base, urls)) ELSE <<>>)
            /\ final_targets' = final_targets_of(targets', base)
            /\ pc' = "loop"
            /\ sm_i' = sm_i
       ELSE /\ sm_i' = sm_i + 1
            /\ pc' = "sitemap"
            /\ UNCHANGED <<targets, final_targets>>

\* lines 674-677 and 679-686, 852-862: after a sitemap candidate has been dealt with,
\* either go on to the next candidate or leave try_fetch_sitemap and build the frontier
AfterCandidate(urls) ==
    /\ sm_urls' = urls
    /\ sm_children' = <<>>
    /\ IF urls # <<>> \/ sm_i = Len(SITEMAP_CANDIDATES)
       THEN LET sm_out == sitemap_result(base, urls)
                t == targets \o (IF sm_out # <<>> THEN sitemap_targets(sm_out) ELSE <<>>)
            IN  /\ targets' = t
                /\ final_targets' = final_targets_of(t, base)
                /\ pc' = "loop"
                /\ sm_i' = sm_i
       ELSE /\ sm_i' = sm_i + 1
            /\ pc' = "sitemap"
            /\ UNCHANGED <<targets, final_targets>>

\* lines 640-652, 667-677: one candidate of try_fetch_sitemap
SitemapFetch ==
    /\ pc = "sitemap"
    /\ LET sm == urljoin(base, SITEMAP_CANDIDATES[sm_i])
           r == safe_get(sm, Respond(site, sm))
           tag == Lower(r.xml.root)
           children == Take([i \in 1..Len(r.xml.locs) |-> Strip(r.xml.locs[i])], 5)
       IN  /\ log' = Append(log, Fetch(sm, "sitemap"))
           /\ IF ~ r.ok \/ ~ r.xml.wellformed
              THEN AfterCandidate(sm_urls)
              ELSE IF Contains(tag, "sitemapindex") /\ children # <<>>
              THEN /\ pc' = "sitemap_child"
                   /\ sm_children' = children
                   /\ UNCHANGED <<sm_i, sm_urls, targets, final_targets>>
              ELSE IF Contains(tag, "urlset")
              THEN AfterCandidate(sm_urls \o locs_of(r.xml))
              ELSE AfterCandidate(sm_urls)
    /\ UNCHANGED <<inputs, dom, final_url, base, pages_scanned, errors, all_text, sponsor_hits,
                   role_hints, found_rows, visited, fetch_errors, signals, idx, result, fit_out, call_out>>

\* lines 653-665: one child of a sitemap index
SitemapChildFetch ==
    /\ pc = "sitemap_child"
    /\ LET child == Head(sm_children)
           r == safe_get(child, Respond(site, child))
           urls == IF r.ok /\ r.xml.wellformed THEN sm_urls \o locs_of(r.xml) ELSE sm_urls
       IN  /\ log' = Append(log, Fetch(child, "child"))
           /\ IF Tail(sm_children) = <<>>
              THEN AfterCandidate(urls)
              ELSE /\ sm_children' = Tail(sm_children)
                   /\ sm_urls' = urls
                   /\ UNCHANGED <<pc, sm_i, targets, final_targets>>
    /\ UNCHANGED <<inputs, dom, final_url, base, pages_scanned, errors, all_text, sponsor_hits,
                   role_hints, found_rows, visited, fetch_errors, signals, idx, result, fit_out, call_out>>

\* lines 864-872: the loop is at a URL it will fetch
AtPage == pc = "loop" /\ idx <= Len(final_targets) /\ pages_scanned < max_pages

\* the sleep and the request of one loop iteration
PageLog(url) == log \o (IF url # final_url THEN <<Sleep>> ELSE <<>>) \o <<Fetch(url, "page")>>

\* a loop that puts a URL whose fetch fails at the end of the frontier, to try it again
PageFetchFails_requeueing ==
    /\ AtPage
    /\ LET url == final_targets[idx]
           r == safe_get(url, Respond(site, url))
       IN  /\ url \notin visited
           /\ ~ r.ok
           /\ log' = PageLog(url)
           /\ fetch_errors' = Append(fetch_errors, url \o " -> " \o Slice(r.err, 1, 180))
           /\ final_targets' = Append(final_targets, url)
           /\ idx' = idx + 1
    /\ UNCHANGED <<inputs, pc, dom, final_url, base, pages_scanned, errors, all_text,
                   sponsor_hits, role_hints, found_rows, signals, targets, sm_i, sm_urls,
                   sm_children, visited, result, fit_out, call_out>>

\* a loop that gives up the rest of the frontier at the first page that fails
PageFetchFails_aborting ==
    /\ AtPage
    /\ LET url == final_targets[idx]
           r == safe_get(url, Respond(site, url))
       IN  /\ url \notin visited
           /\ ~ r.ok
           /\ visited' = visited \cup {url}
           /\ log' = PageLog(url)
           /\ fetch_errors' = Append(fetch_errors, url \o " -> " \o Slice(r.err, 1, 180))
           /\ idx' = Len(final_targets) + 1
    /\ UNCHANGED <<inputs, pc, dom, final_url, base, pages_scanned, errors, all_text,
                   sponsor_hits, role_hints, found_rows, signals, targets, sm_i, sm_urls,
                   sm_children, final_targets, result, fit_out, call_out>>

\* a loop in which a fetch that raises is counted as a page scanned
PageFetchFails_counted ==
    /\ AtPage
    /\ LET url == final_targets[idx]
           r == safe_get(url, Respond(site, url))
       IN  /\ url \notin visited
           /\ ~ r.ok
           /\ visited' = visited \cup {url}
           /\ log' = PageLog(url)
           /\ fetch_errors' = Append(fetch_errors, url \o " -> " \o Slice(r.err, 1, 180))
           /\ idx' = idx + 1
    /\ pages_scanned' = pages_scanned + 1
    /\ UNCHANGED <<inputs, pc, dom, final_url, base, errors, all_text,
                   sponsor_hits, role_hints, found_rows, signals, targets, sm_i, sm_urls,
                   sm_children, final_targets, result, fit_out, call_out>>

\* lines 874-875 raising: the except branch of lines 932-934
PageFetchFails ==
    /\ AtPage
    /\ LET url == final_targets[idx]
           r == safe_get(url, Respond(site, url))
       IN  /\ url \notin visited
           /\ ~ r.ok
           /\ visited' = visited \cup {url}
           /\ log' = PageLog(url)
           /\ fetch_errors' = Append(fetch_errors, url \o " -> " \o Slice(r.err, 1, 180))
           /\ idx' = idx + 1
    /\ UNCHANGED <<inputs, pc, dom, final_url, base, pages_scanned, errors, all_text,
                   sponsor_hits, role_hints, found_rows, signals, targets, sm_i, sm_urls,
                   sm_children, final_targets, result, fit_out, call_out>>

\* lines 867-868 and 874-930: a page is fetched and its candidates are recorded
PageFetchOk ==
    /\ AtPage
    /\ \E url \in {final_targets[idx]} :
       \E r \in {safe_get(url, Respond(site, url))}, pt \in {guess_page_type(url)} :
       \E page \in {PAGE[r.doc]} :
           IF url \in visited
           THEN /\ idx' = idx + 1
                /\ UNCHANGED <<visited, log, pages_scanned, signals, all_text, sponsor_hits,
                               role_hints, found_rows, fetch_errors>>
           ELSE /\ r.ok
                /\ visited' = visited \cup {url}
                /\ log' = PageLog(url)
                /\ idx' = idx + 1
                /\ pages_scanned' = pages_scanned + 1
                /\ signals' = [has_careers_page |-> signals.has_careers_page \/ pt = "Careers",
                               has_team_page |-> signals.has_team_page \/ pt = "Team"]
                /\ IF page.html = ""
                   THEN UNCHANGED <<all_text, sponsor_hits, role_hints, found_rows, fetch_errors>>
                   ELSE /\ all_text' = all_text \o " " \o page.text
                        /\ sponsor_hits' = sponsor_hits + page.sponsor_hits
                        /\ role_hints' = (IF role_hints = "" THEN page.role_hints ELSE role_hints)
                        /\ IF page.raises
                           THEN /\ fetch_errors' = Append(fetch_errors, url \o " -> list index out of range")
                                /\ found_rows' = found_rows
                           ELSE /\ fetch_errors' = fetch_errors
                                /\ \E order \in page.plain_orders[allow_low_value] :
                                      found_rows' = found_rows \o
                                          rows_of_page(source_rows_of(page.cf_rows, page.mailto_rows, pt, order),
                                                       url, pt, dom, allow_low_value)
    /\ UNCHANGED <<inputs, pc, dom, final_url, base, errors, targets, sm_i, sm_urls,
                   sm_children, final_targets, result, fit_out, call_out>>

\* lines 936-1001: profile, score, de-duplicate, rank and return
Finish ==
    /\ pc = "loop"
    /\ idx > Len(final_targets) \/ pages_scanned >= max_pages
    /\ \E org \in {infer_org_type(all_text)}, size \in {infer_size_proxy(signals, all_text)},
          geo \in {geo_hint_from_domain(dom)} :
       LET enriched == [i \in 1..Len(found_rows) |->
                           enrich(found_rows[i], org[1], size[1], geo, sponsor_hits)]
           emails_final == sort_by_score(dedup_rows(enriched))
           errs == IF fetch_errors # <<>> THEN JoinWith(Take(fetch_errors, 3), "; ") ELSE errors
       IN  /\ errors' = errs
           /\ result' = [input_url |-> start_url, final_url |-> final_url, domain |-> dom,
                         pages_scanned |-> pages_scanned, sponsor_lang_hits |-> sponsor_hits,
                         org_type |-> org[1], org_conf |-> org[2],
                         size_proxy |-> size[1], size_conf |-> size[2],
                         geo_hint |-> geo, role_hints |-> role_hints, errors |-> errs,
                         emails |-> emails_final]
           /\ pc' = "done"
    /\ UNCHANGED <<inputs, dom, final_url, base, pages_scanned, all_text, sponsor_hits,
                   role_hints, found_rows, visited, fetch_errors, signals, targets, sm_i,
                   sm_urls, sm_children, final_targets, idx, log, fit_out, call_out>>

\* a direct call of sponsor_fit_score (lines 689-720)
FitCall ==
    /\ pc = "fit_call"
    /\ fit_out' = sponsor_fit_score(fit_args[1], fit_args[2], fit_args[3], fit_args[4],
                                    fit_args[5], fit_args[6], fit_args[7])
    /\ pc' = "fit_ret"
    /\ UNCHANGED <<inputs, dom, final_url, base, pages_scanned, errors, all_text, sponsor_hits,
                   role_hints, found_rows, visited, fetch_errors, signals, targets, sm_i,
                   sm_urls, sm_children, final_targets, idx, result, log, call_out>>

\* one call of safe_get (lines 312-323) through the retrying session
SafeGetCall ==
    /\ pc = "get_call"
    /\ \E g \in {session_get(call_args[1], call_args[2], 1, RETRY)} :
       \E r \in {safe_get(call_args[1], g.response)} :
           call_out' = [ok |-> r.ok, err |-> r.err, url |-> r.url, attempts |-> g.attempts]
    /\ pc' = "get_ret"
    /\ UNCHANGED <<inputs, dom, final_url, base, pages_scanned, errors, all_text, sponsor_hits,
                   role_hints, found_rows, visited, fetch_errors, signals, targets, sm_i,
                   sm_urls, sm_children, final_targets, idx, result, log, fit_out>>

\* deobfuscate_text (lines 427-438) applied to a text, and to its own result
DeobfuscateCall ==
    /\ pc = "deob_call"
    /\ \E once \in {deobfuscate_text(call_args[1])} :
           call_out' = [once |-> once, twice |-> deobfuscate_text(once)]
    /\ pc' = "deob_ret"
    /\ UNCHANGED <<inputs, dom, final_url, base, pages_scanned, errors, all_text, sponsor_hits,
                   role_hints, found_rows, visited, fetch_errors, signals, targets, sm_i,
                   sm_urls, sm_children, final_targets, idx, result, log, fit_out>>

ClassifyCall ==
    /\ pc = "classify_call"
    /\ call_out' = [relevance |-> classify_email_relevance(call_args[1])]
    /\ pc' = "classify_ret"
    /\ UNCHANGED <<inputs, dom, final_url, base, pages_scanned, errors, all_text, sponsor_hits,
                   role_hints, found_rows, visited, fetch_errors, signals, targets, sm_i,
                   sm_urls, sm_children, final_targets, idx, result, log, fit_out>>

Next ==
    \/ SeedFetchFails
    \/ SeedFetchOk
    \/ SitemapFetch
    \/ SitemapChildFetch
    \/ PageFetchFails
    \/ PageFetchOk
    \/ Finish
    \/ FitCall
    \/ SafeGetCall
    \/ DeobfuscateCall
    \/ ClassifyCall

Spec == Init /\ [][Next]_vars

\* one step of a scan_site call
ScanStep ==
    \/ SeedFetchFails
    \/ SeedFetchOk
    \/ SitemapFetch
    \/ SitemapChildFetch
    \/ PageFetchFails
    \/ PageFetchOk
    \/ Finish

\* a switch in which the set of visited URLs belongs to the module, not to the call
Switch_sharing_visited ==
    /\ other.frame.pc # "done"
    /\ other' = [id |-> 3 - other.id, frame |-> Frame]
    /\ \E f \in {other.frame} :
          /\ site' = f.site
          /\ input_url' = f.input_url
          /\ max_pages' = f.max_pages
          /\ use_sitemap' = f.use_sitemap
          /\ allow_low_value' = f.allow_low_value
          /\ pc' = f.pc
          /\ start_url' = f.start_url
          /\ dom' = f.dom
          /\ final_url' = f.final_url
          /\ base' = f.base
          /\ pages_scanned' = f.pages_scanned
          /\ errors' = f.errors
          /\ all_text' = f.all_text
          /\ sponsor_hits' = f.sponsor_hits
          /\ role_hints' = f.role_hints
          /\ found_rows' = f.found_rows
          /\ fetch_errors' = f.fetch_errors
          /\ signals' = f.signals
          /\ targets' = f.targets
          /\ sm_i' = f.sm_i
          /\ sm_urls' = f.sm_urls
          /\ sm_children' = f.sm_children
          /\ final_targets' = f.final_targets
          /\ idx' = f.idx
          /\ result' = f.result
          /\ log' = f.log
    /\ UNCHANGED <<visited, fit_args, fit_out, call_args, call_out>>

\* the call that waits goes on, and the running call waits with its variables
Switch ==
    /\ other.frame.pc # "done"
    /\ other' = [id |-> 3 - other.id, frame |-> Frame]
    /\ \E f \in {other.frame} :
          /\ site' = f.site
          /\ input_url' = f.input_url
          /\ max_pages' = f.max_pages
          /\ use_sitemap' = f.use_sitemap
          /\ allow_low_value' = f.allow_low_value
          /\ pc' = f.pc
          /\ start_url' = f.start_url
          /\ dom' = f.dom
          /\ final_url' = f.final_url
          /\ base' = f.base
          /\ pages_scanned' = f.pages_scanned
          /\ errors' = f.errors
          /\ all_text' = f.all_text
          /\ sponsor_hits' = f.sponsor_hits
          /\ role_hints' = f.role_hints
          /\ found_rows' = f.found_rows
          /\ visited' = f.visited
          /\ fetch_errors' = f.fetch_errors
          /\ signals' = f.signals
          /\ targets' = f.targets
          /\ sm_i' = f.sm_i
          /\ sm_urls' = f.sm_urls
          /\ sm_children' = f.sm_children
          /\ final_targets' = f.final_targets
          /\ idx' = f.idx
          /\ result' = f.result
          /\ log' = f.log
    /\ UNCHANGED <<fit_args, fit_out, call_args, call_out>>

ConcurrentNext ==
    \/ SeedFetchFails
    \/ SeedFetchOk
    \/ SitemapFetch
    \/ SitemapChildFetch
    \/ PageFetchFails
    \/ PageFetchOk
    \/ Finish
    \/ Switch

ConcurrentSpec == ConcurrentInit /\ [][ConcurrentNext]_vars

(***************************************************************************)
(* Properties of the scorer, of de-duplication and of ranking.             *)
(***************************************************************************)
\* C1: sponsor_fit_score returns an integer in 0..100 for every combination of
\* relevance, org type, size proxy, geo hint, non-negative hit count, context
\* score and domain bonus (unknown category strings and values beyond the
\* additive maximum included), and every email of a returned ScanResult carries
\* a sponsor_fit_score in 0..100.
C1_ScoreWithinRange ==
    /\ pc = "fit_ret" => fit_out \in 0..100
    /\ pc = "done" =>
          \A k \in 1..Len(result.emails) : result.emails[k].sponsor_fit_score \in 0..100

\* a call whose additive sum is far above 100 has returned the upper limit
C1_Witness ==
    /\ pc = "fit_ret"
    /\ fit_args = <<"High", "Asset Manager", "Large / Institutional", "UK", 1000, 1000, 10>>
    /\ fit_out = 100

\* C2: after scan_site returns, every lower-cased address that was discovered
\* (found_rows) has exactly one entry in ScanResult.emails, that entry is one of
\* its discoveries and its composite key fitScore*10 + pageTypeRank +
\* relevanceRank is the maximum over all discoveries of the address; no two
\* entries have the same lower-cased address.
C2_OneEntryWithMaxKey ==
    pc = "done" =>
        LET out == result.emails
            disc == [i \in 1..Len(found_rows) |->
                        enrich(found_rows[i], result.org_type, result.size_proxy,
                               result.geo_hint, result.sponsor_lang_hits)]
            key(r) == r.sponsor_fit_score * 10 + page_type_rank(r.page_type) + rel_rank(r.relevance)
        IN  /\ \A i \in 1..Len(disc) : \E k \in 1..Len(out) : Lower(out[k].email) = Lower(disc[i].email)
            /\ \A j, k \in 1..Len(out) : Lower(out[j].email) = Lower(out[k].email) => j = k
            /\ \A k \in 1..Len(out) :
                  /\ \E i \in 1..Len(disc) : disc[i] = out[k]
                  /\ \A i \in 1..Len(disc) :
                        Lower(disc[i].email) = Lower(out[k].email) => key(out[k]) >= key(disc[i])

\* a scan has returned in which an address was discovered first with a higher
\* and later with a lower composite key, and the earlier discovery is retained
C2_Witness ==
    /\ pc = "done"
    /\ \E i, j \in 1..Len(found_rows) : \E k \in 1..Len(result.emails) :
          /\ i < j
          /\ Lower(found_rows[i].email) = Lower(found_rows[j].email)
          /\ found_rows[i].page_type = found_rows[j].page_type
          /\ found_rows[i].context_score > found_rows[j].context_score
          /\ Lower(result.emails[k].email) = Lower(found_rows[i].email)
          /\ result.emails[k].context_score = found_rows[i].context_score
          /\ result.emails[k].sponsor_fit_score < 100

\* C3: when the same lower-cased address is discovered several times in one
\* scan, the retained entry has the highest fitScore among its discoveries,
\* whatever their page types and the order in which they were found.
C3_HighestScoreRetained ==
    pc = "done" =>
        \A k \in 1..Len(result.emails) : \A i \in 1..Len(found_rows) :
            Lower(found_rows[i].email) = Lower(result.emails[k].email) =>
                result.emails[k].sponsor_fit_score >=
                    sponsor_fit_score(found_rows[i].relevance, result.org_type, result.size_proxy,
                                      result.geo_hint, result.sponsor_lang_hits,
                                      found_rows[i].context_score, found_rows[i].domain_bonus)

\* a scan has returned in which the retained entry of an address beat, with a
\* higher score, a discovery of the same address on a page of a better type
C3_Witness ==
    /\ pc = "done"
    /\ \E k \in 1..Len(result.emails) : \E i \in 1..Len(found_rows) :
          /\ Lower(found_rows[i].email) = Lower(result.emails[k].email)
          /\ page_type_rank(found_rows[i].page_type) > page_type_rank(result.emails[k].page_type) + 2
          /\ result.emails[k].sponsor_fit_score >
                sponsor_fit_score(found_rows[i].relevance, result.org_type, result.size_proxy,
                                  result.geo_hint, result.sponsor_lang_hits,
                                  found_rows[i].context_score, found_rows[i].domain_bonus)

\* C4: ScanResult.emails is ordered by sponsor_fit_score non-increasing: of
\* every adjacent pair the earlier entry's score is >= the later one's.
C4_SortedByScore ==
    pc = "done" =>
        \A k \in 1..(Len(result.emails) - 1) :
            result.emails[k].sponsor_fit_score >= result.emails[k + 1].sponsor_fit_score

\* a scan has returned two entries of different scores, the one that ranks
\* first having been discovered only after the other
C4_Witness ==
    /\ pc = "done"
    /\ \E a, b \in 1..Len(result.emails) : \E i, j \in 1..Len(found_rows) :
          /\ a < b /\ i < j
          /\ result.emails[a].sponsor_fit_score > result.emails[b].sponsor_fit_score
          /\ Lower(found_rows[i].email) = Lower(result.emails[b].email)
          /\ Lower(found_rows[j].email) = Lower(result.emails[a].email)
          /\ \A h \in 1..(j - 1) : Lower(found_rows[h].email) # Lower(result.emails[a].email)

(***************************************************************************)
(* Properties of the crawl: failures, pacing and the page limit.           *)
(***************************************************************************)
\* C5: if the fetch of the seed URL fails (exception or HTTP status >= 400),
\* scan_site performs no further fetch and returns a ScanResult with an empty
\* emails list, a non-empty errors string and pages_scanned counting no page
\* beyond the attempted seed fetch.
C5_SeedFailureShortCircuits ==
    (pc \in {"start", "sitemap", "sitemap_child", "loop", "done"}
        /\ (Respond(site, start_url).exc \/ Respond(site, start_url).status >= 400)) =>
        /\ pc \in {"start", "done"}
        /\ Len(log) <= 1
        /\ pc = "done" =>
              /\ log = <<Fetch(start_url, "seed")>>
              /\ result.emails = <<>>
              /\ result.errors # ""
              /\ result.pages_scanned <= 1

\* the scan of a site that answers HTTP 500 has returned
C5_Witness ==
    /\ pc = "done"
    /\ site.home = "500" /\ site.contact = "500"
    /\ log = <<Fetch(start_url, "seed")>>
    /\ StartsWith(result.errors, "HTTP 500 for " \o start_url)

\* C6: when the fetch of a frontier page fails after the seed page succeeded,
\* the failure is recorded as a per-page error for that URL, the scan goes on:
\* every remaining frontier URL is still attempted until the max_pages limit
\* stops the loop, the emails collected so far are kept in the result, and the
\* returned ScanResult.errors is non-empty.
C6_PageFailureDoesNotAbort ==
    /\ (log # <<>> /\ log[Len(log)].kind = "page"
           /\ (Respond(site, log[Len(log)].url).exc \/ Respond(site, log[Len(log)].url).status >= 400)) =>
          /\ fetch_errors # <<>>
          /\ StartsWith(fetch_errors[Len(fetch_errors)], log[Len(log)].url \o " -> ")
    /\ (pc = "done" /\ pages_scanned >= 1) =>
          /\ pages_scanned >= max_pages
                \/ \A k \in 1..Len(final_targets) : final_targets[k] \in visited
          /\ fetch_errors # <<>> => result.errors # ""
          /\ \A i \in 1..Len(found_rows) : \E k \in 1..Len(result.emails) :
                Lower(result.emails[k].email) = Lower(found_rows[i].email)

\* a scan has returned below the page limit after it went through the whole
\* frontier, in which a page failed and a page fetched after it gave emails
C6_Witness ==
    /\ pc = "done"
    /\ pages_scanned >= 1 /\ pages_scanned < max_pages
    /\ \A k \in 1..Len(final_targets) : final_targets[k] \in visited
    /\ result.errors # "" /\ result.emails # <<>>
    /\ \E i, j \in 1..Len(log) :
          /\ i < j
          /\ log[i].kind = "page" /\ Respond(site, log[i].url).status >= 400
          /\ log[j].kind = "page"
          /\ \E h \in 1..Len(found_rows) : found_rows[h].page_url = log[j].url

\* C7: within one site scan every HTTP fetch after the first one (the re-fetch
\* of a frontier URL equal to the resolved seed URL, the sitemap and the
\* child-sitemap fetches included) is preceded by a wait of delay_s since the
\* previous fetch.
C7_DelayBeforeEveryFetch ==
    \A i \in 2..Len(log) : log[i].ev = "fetch" => log[i - 1].ev = "sleep"

\* C8: the number of page fetch attempts of one scan_site call (the seed fetch
\* plus the frontier URL fetches, whether they succeed or fail) never exceeds
\* max_pages.
C8_AttemptsWithinMaxPages ==
    pc \in {"start", "sitemap", "sitemap_child", "loop", "done"} =>
        Cardinality({i \in 1..Len(log) : log[i].kind \in {"seed", "page"}}) <= max_pages

(***************************************************************************)
(* Properties of the candidate filter.                                     *)
(***************************************************************************)
\* C9: for every setting of allow_low_value and every page content, no address
\* whose local part equals or contains a trap role name appears in
\* ScanResult.emails.
C9_NoTrapAddressReturned ==
    pc = "done" =>
        \A k \in 1..Len(result.emails) :
            LET e == result.emails[k].email
                lp == Lower(SubSeq(e, 1, Find(e, "@") - 1))
            IN  \A h \in {"abuse", "security", "privacy", "legal", "webmaster", "postmaster",
                          "mailer-daemon", "noreply", "no-reply", "donotreply"} :
                    ~ Contains(lp, h)

\* a scan that allows low-value addresses has returned emails of a page whose
\* text holds a trap address
C9_Witness ==
    /\ pc = "done"
    /\ allow_low_value
    /\ \E k \in 1..Len(result.emails) :
          LET u == result.emails[k].page_url
          IN  "noreply@firm.co.uk" \in PAGE[safe_get(u, Respond(site, u)).doc].emails

\* C10: every entry of ScanResult.emails has an address that is non-empty, has
\* no blocked file extension suffix, holds no "/" and no "\", and fully matches
\* the email pattern; no candidate that fails this validation is recorded
\* (classified), scored or returned.
C10_OnlyValidAddresses ==
    pc = "done" =>
        \A e \in {found_rows[i].email : i \in 1..Len(found_rows)}
                 \cup {result.emails[k].email : k \in 1..Len(result.emails)} :
            /\ Strip(e) # ""
            /\ \A x \in 1..Len(COMMON_FILE_EXTS) : ~ EndsWith(Lower(Strip(e)), COMMON_FILE_EXTS[x])
            /\ ~ Contains(e, "/")
            /\ ~ Contains(e, "\\")
            /\ EMAIL_RE_fullmatch(Strip(e))

\* a scan has returned emails of a page whose text holds a file name that
\* matches the email pattern
C10_Witness ==
    /\ pc = "done"
    /\ \E k \in 1..Len(result.emails) :
          LET u == result.emails[k].page_url
          IN  Contains(PAGE[safe_get(u, Respond(site, u)).doc].text, "logo@2x.png")

(***************************************************************************)
(* Properties of the HTTP layer.                                           *)
(***************************************************************************)
Retryable(a) == a.fail # "" \/ a.status \in STATUS_FORCELIST

\* C11 (as stated): when every attempt of a safe_get call meets a retryable
\* status or a connection or read failure, at most 3 requests are sent for the
\* URL and the call ends in an error.
C11_AtMostThreeAttempts ==
    (pc = "get_ret" /\ \A i \in 1..Len(call_args[2]) : Retryable(call_args[2][i]))
        => call_out.attempts <= 3 /\ ~ call_out.ok

\* a response with status < 400 whose Content-Type is neither text/html nor application/xhtml+xml
NonHtml(r) ==
    /\ ~ r.exc /\ r.status < 400
    /\ ~ Contains(Lower(r.ctype), "text/html") /\ ~ Contains(Lower(r.ctype), "application/xhtml")

\* C12: a frontier page answered with status < 400 and a non-HTML Content-Type
\* makes safe_get return the final URL with an empty body; the step that fetches
\* it adds one to pages_scanned, records no error for it and adds no candidate
\* row, text or sponsor hit.
C12_NonHtmlPageIsVisitedOnly ==
    [][(/\ AtPage
        /\ final_targets[idx] \notin visited
        /\ NonHtml(Respond(site, final_targets[idx]))
        /\ idx' # idx)
       => (/\ safe_get(final_targets[idx], Respond(site, final_targets[idx])).ok
           /\ safe_get(final_targets[idx], Respond(site, final_targets[idx])).doc = EmptyDoc
           /\ safe_get(final_targets[idx], Respond(site, final_targets[idx])).url
                 = Respond(site, final_targets[idx]).url
           /\ visited' = visited \cup {final_targets[idx]}
           /\ pages_scanned' = pages_scanned + 1
           /\ fetch_errors' = fetch_errors
           /\ found_rows' = found_rows
           /\ all_text' = all_text
           /\ sponsor_hits' = sponsor_hits)]_vars

\* a non-HTML frontier page has been visited and counted, with no error recorded
C12_Witness ==
    /\ pc = "loop"
    /\ pages_scanned = 2
    /\ fetch_errors = <<>>
    /\ \E u \in visited : NonHtml(Respond(site, u))

(***************************************************************************)
(* Properties of the frontier and of the sitemap probe.                    *)
(***************************************************************************)
\* position of the first occurrence of u in the sequence q
FirstIndex(q, u) == MinOf({i \in 1..Len(q) : q[i] = u})

\* C13: every URL of the frontier that the page loop iterates is on the domain
\* of the base URL, no URL occurs in it twice, and the URLs stand in the order
\* of their first occurrence among the targets (guessed paths, homepage links,
\* sitemap URLs).  Stated for the URL the loop is at, in every state of the
\* loop: first occurrences that increase from each iterated URL to the next
\* give both the order, and that no URL comes twice.
C13_FrontierSameDomainNoRepeats ==
    (pc = "loop" /\ idx <= Len(final_targets)) =>
        /\ same_domain(base, final_targets[idx])
        /\ \E k \in 1..Len(targets) : targets[k] = final_targets[idx]
        /\ idx > 1 =>
              FirstIndex(targets, final_targets[idx - 1]) < FirstIndex(targets, final_targets[idx])

\* the targets hold a URL twice, from the guessed paths and from the sitemap
C13_Witness ==
    /\ pc = "loop"
    /\ use_sitemap
    /\ Len(final_targets) < Len(targets)
    /\ \E i, j \in 1..Len(targets) : i < j /\ targets[i] = targets[j]

\* the sitemap probes issued so far, in order
SitemapLog == FilterSeq(log, {e \in Range(log) : e.kind = "sitemap"})

\* candidate k of the probe has been fetched and has parsed as XML
Parsed(st, b, k) ==
    /\ safe_get(urljoin(b, SITEMAP_CANDIDATES[k]), Respond(st, urljoin(b, SITEMAP_CANDIDATES[k]))).ok
    /\ safe_get(urljoin(b, SITEMAP_CANDIDATES[k]),
                Respond(st, urljoin(b, SITEMAP_CANDIDATES[k]))).xml.wellformed

\* the <loc> URLs of the child sitemaps that can be fetched and parsed
RECURSIVE ChildUrls(_, _)
ChildUrls(st, children) ==
    IF children = <<>> THEN <<>>
    ELSE (IF safe_get(children[1], Respond(st, children[1])).ok
             /\ safe_get(children[1], Respond(st, children[1])).xml.wellformed
          THEN locs_of(safe_get(children[1], Respond(st, children[1])).xml) ELSE <<>>)
         \o ChildUrls(st, Tail(children))

\* the <loc> URLs that the document r of a candidate yields
UrlsOfCandidate(st, r) ==
    IF ~ r.ok \/ ~ r.xml.wellformed THEN <<>>
    ELSE IF Contains(Lower(r.xml.root), "sitemapindex")
    THEN ChildUrls(st, Take(locs_of(r.xml), 5))
    ELSE IF Contains(Lower(r.xml.root), "urlset") THEN locs_of(r.xml)
    ELSE <<>>

CandidateUrls(st, b, k) ==
    UrlsOfCandidate(st, safe_get(urljoin(b, SITEMAP_CANDIDATES[k]),
                                 Respond(st, urljoin(b, SITEMAP_CANDIDATES[k]))))

\* C14 (as stated): the candidates /sitemap.xml, /sitemap_index.xml and
\* /sitemap-index.xml are probed in this order, and no candidate is fetched
\* after one that was fetched and parsed as XML, even one without a <loc> URL.
C14_StopsAtFirstParsed ==
    \A k \in 1..Len(SitemapLog) :
        /\ SitemapLog[k].url = urljoin(base, SITEMAP_CANDIDATES[k])
        /\ k > 1 => ~ Parsed(site, base, k - 1)

\* C14 (amended): the candidates are probed in this order, and no candidate is
\* fetched after one from which at least one <loc> URL was collected; a
\* candidate that parses without yielding a URL does not end the probe.
C14_StopsAtFirstWithUrls ==
    /\ \A k \in 1..Len(SitemapLog) :
          /\ SitemapLog[k].url = urljoin(base, SITEMAP_CANDIDATES[k])
          /\ k > 1 => CandidateUrls(site, base, k - 1) = <<>>
    /\ (pc \in {"loop", "done"} /\ SitemapLog # <<>> /\ Len(SitemapLog) < Len(SITEMAP_CANDIDATES))
          => CandidateUrls(site, base, Len(SitemapLog)) # <<>>

\* the first candidate parsed without a URL, the second yielded URLs and ended the probe
C14_Witness ==
    /\ pc = "loop"
    /\ Len(SitemapLog) = 2
    /\ Parsed(site, base, 1)
    /\ CandidateUrls(site, base, 2) # <<>>

\* the answer of the site to the first sitemap candidate
FirstSitemap == Respond(site, urljoin(base, SITEMAP_CANDIDATES[1]))

\* C15 (as stated): with use_sitemap enabled, when a probed sitemap endpoint
\* answers with status < 400 and a well-formed urlset, whatever its
\* Content-Type, its same-domain <loc> URLs whose path holds an intent keyword
\* (the first 25) are in the frontier of the scan.
C15_UrlsetUrlsInFrontier ==
    (/\ pc = "loop" /\ use_sitemap
     /\ ~ FirstSitemap.exc /\ FirstSitemap.status < 400
     /\ FirstSitemap.xml.wellformed /\ Contains(Lower(FirstSitemap.xml.root), "urlset"))
    => \A u \in Range(sitemap_targets(sitemap_result(base, locs_of(FirstSitemap.xml)))) :
           u \in Range(final_targets)

(***************************************************************************)
(* Properties of the text helpers.                                         *)
(***************************************************************************)
\* C16 (as stated): deobfuscate_text applied to its own result changes nothing,
\* for every text, and 'jane [at] example [dot] com' becomes 'jane@example.com'.
C16_DeobfuscateIdempotent ==
    pc = "deob_ret" =>
        /\ call_out.twice = call_out.once
        /\ call_args[1] = "jane [at] example [dot] com" => call_out.once = "jane@example.com"

\* C17: every address whose local part is exactly a hint word gets the level of
\* the list the word is in (High, Low or Medium), and an address whose local
\* part holds no hint is Medium.
C17_HintWordHasItsOwnLevel ==
    pc = "classify_ret" =>
        LET lp == localpart(call_args[1])
            level == call_out.relevance
        IN  /\ lp \in Range(HIGH_VALUE_HINTS) => level = "High"
            /\ lp \in Range(LOW_VALUE_HINTS) => level = "Low"
            /\ lp \in Range(MEDIUM_VALUE_HINTS) => level = "Medium"
            /\ ~AnyIn(HIGH_VALUE_HINTS \o LOW_VALUE_HINTS \o MEDIUM_VALUE_HINTS, lp) => level = "Medium"

(***************************************************************************)
(* Properties of the result of a scan.                                     *)
(***************************************************************************)
\* the site answers the seed URL with its home page and no other request
SeedPageOnly ==
    /\ pc \in {"start", "sitemap", "sitemap_child", "loop", "done"}
    /\ input_url = "firm.co.uk"
    /\ site.home = "home" /\ site.partners = "404" /\ site.contact = "500"
    /\ site.team = "exc" /\ site.other = "404" /\ site.sitemap = "none"

EntriesOf(address) == {k \in 1..Len(result.emails) : Lower(result.emails[k].email) = address}

\* C18: for a site whose only retrievable page is the seed page, and for every
\* max_pages, each valid non-trap address that the seed page holds as a mailto
\* link is returned exactly once; the entry of partnerships@firm.co.uk has
\* relevance High, org type Asset Manager, geo hint UK and a fit score >= 70.
C18_SeedPageMailtoReturnedOnce ==
    (SeedPageOnly /\ pc = "done") =>
        /\ \A a \in {"partnerships@firm.co.uk", "hello@firm.co.uk"} : Cardinality(EntriesOf(a)) = 1
        /\ \A k \in EntriesOf("partnerships@firm.co.uk") :
              /\ result.emails[k].relevance = "High"
              /\ result.emails[k].org_type = "Asset Manager"
              /\ result.emails[k].geo_hint = "UK"
              /\ result.emails[k].sponsor_fit_score >= 70

\* C19: the role hints of the result are the catalog role phrases found in the
\* text of all the pages the scan has read (sorted, the first 8, joined): a
\* phrase that only a later page holds is included even when an earlier page
\* has contributed other phrases.
C19_RoleHintsOfAllPages ==
    pc = "done" => result.role_hints = extract_role_hints(all_text)

(***************************************************************************)
(* Properties of two scans in progress at once.                            *)
(***************************************************************************)
\* the variables of call id, running or waiting
FrameOf(id) == IF other.id = id THEN other.frame ELSE Frame

PageFetches == {i \in 1..Len(log) : log[i].kind \in {"seed", "page"}}

\* C21: within one scan_site call no URL is fetched as a page more than once:
\* the seed URL fetched at the start is not fetched again when it comes up in
\* the frontier.
C21_NoPageFetchedTwice ==
    \A i, j \in PageFetches : log[i].url = log[j].url => i = j

\* the page fetches of the log that have returned: the server's answer got through safe_get
Returned == {i \in PageFetches : safe_get(log[i].url, Respond(site, log[i].url)).ok}

\* C22: in every state of a scan (max_pages >= 1), pages_scanned is the number
\* of page fetches that have returned so far (the seed fetch and the frontier
\* fetches; the fetches that failed and the sitemap fetches are not counted),
\* and it never exceeds max_pages; the returned ScanResult holds that value.
C22_PagesScannedCountsReturnedFetches ==
    pc \in {"start", "sitemap", "sitemap_child", "loop", "done"} =>
        /\ pages_scanned = Cardinality(Returned)
        /\ pages_scanned <= max_pages
        /\ pc = "done" => /\ result.pages_scanned = pages_scanned
                          /\ result.pages_scanned \in 0..max_pages

\* a scan has returned at its page limit after a page fetch failed and a
\* sitemap was fetched
C22_Witness ==
    /\ pc = "done"
    /\ result.pages_scanned = max_pages /\ max_pages >= 2
    /\ PageFetches \ Returned # {}
    /\ \E i \in 1..Len(log) : log[i].kind = "sitemap"

\* C23: every request of a scan (seed, frontier pages, sitemap candidates and
\* the children listed in a sitemap index) goes to the host of the scanned
\* site: a sitemap index whose <loc> entries name another host causes no
\* request to that host.
C23_RequestsTargetOwnHost ==
    \A i \in 1..Len(log) :
        log[i].ev = "fetch" => domain_of(log[i].url) = HostOf(site)

(***************************************************************************)
(* Termination of a scan.  scan_site is sequential code and every action   *)
(* is a whole fetch with its outcome, returned or failed: a call that      *)
(* does not return is a call that goes on taking steps.                    *)
(***************************************************************************)
\* the calls of scan_site alone
ScanSpec == ScanInit /\ [][ScanStep]_vars

\* the positions of the log that hold a fetch of the given kind
FetchesOf(kind) == {i \in 1..Len(log) : log[i].kind = kind}

\* the children fetched for the sitemap candidate fetched at position i of the log
ChildrenOf(i) ==
    {j \in FetchesOf("child") : j > i /\ \A k \in FetchesOf("sitemap") : k > i => k > j}

\* the requests made so far are within the limits of lines 594-604, 607-629, 633-637, 653,
\* 855, and a call that is over has returned a ScanResult
ScanBounded ==
    /\ Len(final_targets) <= 1 + Len(GUESS_PATHS) + 25 + 25
    /\ \A i, j \in FetchesOf("page") : log[i].url = log[j].url => i = j
    /\ Cardinality(FetchesOf("page")) <= Len(final_targets)
    /\ Cardinality(FetchesOf("sitemap")) <= Len(SITEMAP_CANDIDATES)
    /\ \A i \in FetchesOf("sitemap") : Cardinality(ChildrenOf(i)) <= 5
    /\ pc = "done" => result.input_url = start_url /\ result.pages_scanned = pages_scanned

\* a step of the loop leaves the frontier as it is and goes on to its next URL
LoopAdvances ==
    pc = "loop" => /\ final_targets' = final_targets
                   /\ pc' = "loop" => idx' = idx + 1
                   /\ pc' # "loop" => pc' = "done" /\ idx' = idx

\* a step of try_fetch_sitemap goes on to the next child, to the next candidate, or to the loop
SitemapAdvances ==
    pc \in {"sitemap", "sitemap_child"} =>
        \/ pc' = "sitemap_child" /\ sm_i' = sm_i
              /\ (pc = "sitemap_child" => Len(sm_children') < Len(sm_children))
        \/ pc' = "sitemap" /\ sm_i' = sm_i + 1
        \/ pc' = "loop" /\ idx' = idx

\* C24: every scan_site call returns a ScanResult, whatever fetches succeed
\* and fail, given that each fetch returns or fails: the frontier is finite
\* (base, guessed paths, at most 25 homepage links and at most 25 sitemap
\* URLs), each frontier URL is attempted at most once, at most 3 sitemap
\* candidates with at most 5 children each are fetched, no step adds a URL
\* to the frontier again, and a call takes finitely many steps: from some
\* point on no step is taken.
C24_ScanTerminates ==
    /\ [] ScanBounded
    /\ [][LoopAdvances /\ SitemapAdvances]_vars
    /\ <>[][FALSE]_vars

\* a scan has returned after a sitemap index with more than 5 children was
\* probed, a frontier page failed and another was read
C24_Witness ==
    /\ pc = "done"
    /\ \E i \in FetchesOf("sitemap") : Cardinality(ChildrenOf(i)) = 5
    /\ fetch_errors # <<>>
    /\ pages_scanned >= 2
    /\ idx > Len(final_targets)

====
